---- MODULE Spec2Model ----
(***************************************************************************)
(* Model of the anomaly trading engine of TradeBotRedDays:                 *)
(*   - ImprovedAnomalyTradingStrategy.backtest_strategy and the Position   *)
(*     lots it manages (improved_anomaly_strategy.py),                     *)
(*   - AnomalyDetector: its four detectors on a bar series and the         *)
(*     aggregation of detect_all_anomalies (anomaly_strategy.py),          *)
(*   - LiveAnomalyDetector.detect_anomalies (live_anomaly_strategy.py),    *)
(*   - ImprovedAnomalyTradingStrategy.run_backtest, which runs the         *)
(*     backtest of every stock of a list and sums the results,             *)
(*   - LivePositionTracker and the live position sizer                     *)
(*     (live_anomaly_strategy.py),                                         *)
(*   - AdvancedStrategyOptimizer.optimize_all_stocks: the filter and the   *)
(*     order of the strategies it returns (advanced_optimize.py),          *)
(*   - the live scheduler: Trader (trader.py), check_signals of            *)
(*     LiveAnomalyStrategy and the two loops of TradingScheduler           *)
(*     (scheduler.py),                                                     *)
(*   - AnomalyTradingStrategy.backtest_strategy, the basic engine          *)
(*     (anomaly_strategy.py).                                              *)
(*                                                                         *)
(* Numbers are fixed point.  Prices are whole dollars; shares are counted  *)
(* in millionths of a share; money (shares * price) is therefore counted   *)
(* in millionths of a dollar; stop levels (price * (1 - pct)) are counted  *)
(* in hundredths of a dollar; severities are counted in tenths.            *)
(***************************************************************************)
EXTENDS Integers, Sequences, FiniteSets, TLC

VARIABLES
    pc,                     \* position of the modelled program
    data,                   \* the bar series fetched for the symbol
    i,                      \* bar index of the backtest loop
    current_price,          \* data.iloc[i]['Close'] of the bar being processed
    positions,              \* list of open Position lots
    trades,                 \* trade log of the run
    total_invested,
    total_sold_value,
    anomalies_detected,
    stop_loss_triggers,
    trailing_stop_triggers,
    overbought_sells,
    stock_performance,      \* self.stock_performance: symbol -> record
    result,                 \* dictionary returned by backtest_strategy
    bar_lots,               \* history: the lots open when the current bar began
    bar_first,              \* history: Len(trades) when the current bar began
    bar_signal,             \* history: anomaly_info of the current bar
    bar_bought,             \* history: positions once the BUY branch has run
    live_positions,         \* LivePositionTracker.positions
    live_ret,               \* last value returned by update_position
    sizer_out,              \* values returned by the two position sizers
    symbol,                 \* the symbol backtest_strategy is called with
    stocks,                 \* self.stocks of run_backtest; << >> outside of it
    stock_idx,              \* place in stocks of the symbol being processed
    results,                \* run_backtest: results[symbol]
    run_results,            \* history: what each call of backtest_strategy returned
    totals,                 \* run_backtest: the running totals
    summary,                \* run_backtest: the 'summary' it returns
    market,                 \* what the data source holds for each symbol
    det_in,                 \* the series and index the detectors are called with
    det_out,                \* what the two detectors return for det_in
    opt_in,                 \* optimizer: what test_strategy returns, per strategy and stock
    opt_out,                \* optimizer: the list optimize_all_stocks returns
    broker,                 \* scheduler: the Trader's client and the broker's positions
    sched,                  \* scheduler: history, the last turn of a scheduler loop
    ticks,                  \* scheduler: turns taken so far
    shares_owned            \* basic engine: shares held by backtest_strategy

portfolio_vars == << symbol, stocks, stock_idx, results, run_results, totals,
                     summary >>

detector_vars == << det_in, det_out >>

optimizer_vars == << opt_in, opt_out >>

scheduler_vars == << broker, sched, ticks >>

basic_vars == << shares_owned >>

vars == << pc, data, i, current_price, positions, trades, total_invested,
           total_sold_value, anomalies_detected, stop_loss_triggers,
           trailing_stop_triggers, overbought_sells, stock_performance,
           result, bar_lots, bar_first, bar_signal, bar_bought,
           live_positions, live_ret, sizer_out, portfolio_vars, market,
           detector_vars, optimizer_vars, scheduler_vars, basic_vars >>

(***************************************************************************)
(* Bounds of the model.                                                    *)
(***************************************************************************)
MaxBars == 3        \* bars of a series on which prices and readings vary
MaxCount == 6       \* largest win or loss count given to the sizers
PortfolioBars == 2  \* bars that vary in a series fetched by run_backtest

(***************************************************************************)
(* Units and program constants.                                            *)
(***************************************************************************)
MoneyUnit == 1000 * 1000            \* millionths of a dollar
lookback_period == 20
MinBars == 30
BaseDollars == 10
base_position_size == BaseDollars * MoneyUnit
min_severity == 10                  \* 1.0
StrongSeverity == 30                \* 3.0
StopLossPct == 5                    \* stop_loss_pct = 0.05
TrailingStopPct == 5                \* trailing_stop_pct = 0.05
DustShares == 100                   \* 0.0001 share
ShareQuantum == 100                 \* round(shares, 4)
MoneyQuantum == 10 * 1000           \* round(money, 2)

\* The symbols of the model.
Symbols == {"AAPL", "MSFT"}

NoRecord == [present |-> FALSE, wins |-> 0, losses |-> 0, total_profit |-> 0]
NoResult == [kind |-> "none"]
NoSignal == [is_anomaly |-> FALSE, anomaly_types |-> {}, severity |-> 0,
             signal_type |-> "None"]

(***************************************************************************)
(* round(x, ndigits): Python rounds half to even.  q is the quantum of the *)
(* rounding in the unit of x.                                              *)
(***************************************************************************)
Round(x, q) ==
    LET lo == x \div q
        r  == x % q
    IN  IF 2 * r < q THEN lo * q
        ELSE IF 2 * r > q THEN (lo + 1) * q
        ELSE IF lo % 2 = 0 THEN lo * q ELSE (lo + 1) * q

(***************************************************************************)
(* Position: one open lot.                                                 *)
(***************************************************************************)
Position(shares, entry_price, entry_date, position_size) ==
    [ shares              |-> shares,
      entry_price         |-> entry_price,
      entry_date          |-> entry_date,
      position_size       |-> position_size,
      highest_price       |-> entry_price,
      stop_loss_price     |-> entry_price * 95,
      trailing_stop_price |-> entry_price * 95,
      trailing_stop_pct   |-> 5 ]

\* The lot a BUY opens: the constructor's levels are replaced by the
\* strategy's stop_loss_pct and trailing_stop_pct.
NewPosition(shares, price, date, position_size) ==
    [ Position(shares, price, date, position_size) EXCEPT
        !.stop_loss_price = price * (100 - StopLossPct),
        !.trailing_stop_pct = TrailingStopPct,
        !.trailing_stop_price = price * (100 - TrailingStopPct) ]

\* Mutant: the trailing stop follows every close, down as well as up.
update_trailing_stop_Unguarded(pos, price) ==
    [pos EXCEPT !.highest_price = price,
                !.trailing_stop_price = price * (100 - pos.trailing_stop_pct)]

\* Mutant: a new high also moves the stop-loss price up.
update_trailing_stop_MovesStopLoss(pos, price) ==
    IF price > pos.highest_price
    THEN [pos EXCEPT !.highest_price = price,
                     !.trailing_stop_price = price * (100 - pos.trailing_stop_pct),
                     !.stop_loss_price = price * (100 - StopLossPct)]
    ELSE pos

update_trailing_stop(pos, price) ==
    IF price > pos.highest_price
    THEN [pos EXCEPT !.highest_price = price,
                     !.trailing_stop_price = price * (100 - pos.trailing_stop_pct)]
    ELSE pos

should_stop_loss(pos, price) == price * 100 <= pos.stop_loss_price

should_trailing_stop(pos, price) == price * 100 <= pos.trailing_stop_price

(***************************************************************************)
(* Position sizing and the performance record.                             *)
(***************************************************************************)
\* Mutant: the lower bounds of the win-rate bands are exclusive.
get_position_size_Exclusive(perf) ==
    IF ~perf.present THEN base_position_size
    ELSE LET wins == perf.wins
             losses == perf.losses
             total_trades == wins + losses
         IN  IF total_trades = 0 THEN base_position_size
             ELSE IF wins * 10 > 6 * total_trades THEN (base_position_size * 12) \div 10
             ELSE IF wins * 10 > 5 * total_trades THEN (base_position_size * 10) \div 10
             ELSE IF wins * 10 > 4 * total_trades THEN (base_position_size * 8) \div 10
             ELSE (base_position_size * 6) \div 10

get_position_size(perf) ==
    IF ~perf.present THEN base_position_size
    ELSE LET wins == perf.wins
             losses == perf.losses
             total_trades == wins + losses
         IN  IF total_trades = 0 THEN base_position_size
             ELSE IF wins * 10 >= 6 * total_trades THEN (base_position_size * 12) \div 10
             ELSE IF wins * 10 >= 5 * total_trades THEN (base_position_size * 10) \div 10
             ELSE IF wins * 10 >= 4 * total_trades THEN (base_position_size * 8) \div 10
             ELSE (base_position_size * 6) \div 10

LiveGetPositionSize(perf, base_size) ==
    IF ~perf.present THEN base_size
    ELSE LET wins == perf.wins
             losses == perf.losses
             total == wins + losses
         IN  IF total = 0 THEN base_size
             ELSE IF wins * 10 >= 6 * total THEN (base_size * 12) \div 10
             ELSE IF wins * 10 >= 5 * total THEN base_size
             ELSE IF wins * 10 >= 4 * total THEN (base_size * 8) \div 10
             ELSE (base_size * 6) \div 10

\* Mutant: every symbol is filed under the same key.
PerfKey_Shared(sym) == "AAPL"

\* The key of a symbol's record in self.stock_performance.
PerfKey(sym) == sym

update_performance(perf, profit) ==
    LET p == IF perf.present THEN perf
             ELSE [present |-> TRUE, wins |-> 0, losses |-> 0, total_profit |-> 0]
    IN  IF profit > 0
        THEN [p EXCEPT !.wins = @ + 1, !.total_profit = @ + profit]
        ELSE [p EXCEPT !.losses = @ + 1, !.total_profit = @ + profit]

(***************************************************************************)
(* AnomalyDetector.detect_all_anomalies, from the results of the four      *)
(* detectors on.  A reading is what the detectors report for one bar: a    *)
(* function from the tags that fired to the severity each contributes.     *)
(***************************************************************************)
buy_signals == {"oversold", "extreme_drop", "gap_down", "rsi_oversold"}
sell_signals == {"overbought", "extreme_rise", "gap_up", "rsi_overbought"}

RECURSIVE SumOver(_, _)
SumOver(f, S) ==
    IF S = {} THEN 0
    ELSE LET t == CHOOSE x \in S : TRUE IN f[t] + SumOver(f, S \ {t})

detect_all_anomalies(reading) ==
    LET all_anomalies == DOMAIN reading
        total_severity == SumOver(reading, all_anomalies)
        first == IF all_anomalies \cap buy_signals # {} THEN "BUY" ELSE "None"
        signal_type == IF all_anomalies \cap sell_signals # {}
                       THEN (IF first = "BUY" THEN "MIXED" ELSE "SELL")
                       ELSE first
    IN  [ is_anomaly  |-> Cardinality(all_anomalies) > 0,
          anomaly_types |-> all_anomalies,
          severity    |-> total_severity,
          signal_type |-> signal_type ]

QuietReading == [t \in {} |-> 0]

Readings ==
    { QuietReading,
      "rsi_oversold" :> 5,
      "oversold" :> 25,
      "volume_spike" :> 10 @@ "volatility_spike" :> 10,
      "overbought" :> 25,
      "overbought" :> 25 @@ "volume_spike" :> 10,
      "extreme_drop" :> 20 @@ "gap_up" :> 15,
      "gap_down" :> 11 @@ "rsi_overbought" :> 5 }

\* The series a run may fetch.  A series is described by its length, the
\* closes its last MaxBars bars take and the close of the bars before them:
\* those earlier bars are quiet (the close does not move, no detector fires).
\* The last `vary` bars of a series take their closes in `closes` and their
\* readings in `readings`.
Prices == {95, 100, 104}
HighPrices == {80000, 84800}
NoData == [len |-> 0, closes |-> {}, quiet |-> 0, vary |-> 0, readings |-> {}]
DataSets ==
    { [len |-> MinBars - 1, closes |-> Prices, quiet |-> 100,
       vary |-> MaxBars, readings |-> Readings],
      [len |-> MinBars, closes |-> Prices, quiet |-> 100,
       vary |-> MaxBars, readings |-> Readings],
      [len |-> MinBars, closes |-> HighPrices, quiet |-> 80000,
       vary |-> MaxBars, readings |-> Readings] }

\* The series run_backtest may fetch for a stock of its list.
PortfolioPrices == {95, 100}
PortfolioReadings ==
    { QuietReading,
      "oversold" :> 25,
      "extreme_drop" :> 20 @@ "gap_up" :> 15 }
PortfolioData ==
    { [len |-> MinBars - 1, closes |-> PortfolioPrices, quiet |-> 100,
       vary |-> PortfolioBars, readings |-> PortfolioReadings],
      [len |-> MinBars, closes |-> PortfolioPrices, quiet |-> 100,
       vary |-> PortfolioBars, readings |-> PortfolioReadings] }

BarPrices(d, idx) == IF idx < d.len - d.vary THEN {d.quiet} ELSE d.closes
BarReadings(d, idx) == IF idx < d.len - d.vary THEN {QuietReading} ELSE d.readings

\* What a fetch can come to: ticker.history raises, returns an empty frame,
\* or returns one of the series of `sets`.
Fetches(sets) ==
    { [kind |-> "raised", frame |-> NoData], [kind |-> "empty", frame |-> NoData] }
    \cup { [kind |-> "ok", frame |-> d] : d \in sets }

\* fetch_stock_data: an exception and an empty frame both give an empty frame.
fetch_stock_data(raw) ==
    IF raw.kind = "raised" THEN NoData
    ELSE IF raw.kind = "empty" THEN NoData
    ELSE raw.frame

\* The data source: for each symbol what its first fetch came to and the
\* closes and readings of the bars read so far.  run_backtest reads the same
\* series again when it meets the symbol again.
NoMarket ==
    [ fetched |-> FALSE, raw |-> [kind |-> "empty", frame |-> NoData],
      closes |-> << >>, readings |-> << >> ]

InPortfolio == stocks # << >>

\* The fetches the source can answer the current call with.
Offered ==
    IF ~InPortfolio THEN Fetches(DataSets)
    ELSE IF market[symbol].fetched THEN {market[symbol].raw}
    ELSE Fetches(PortfolioData)

\* Bar idx is read again when the series of the symbol already holds it.
BarNo(idx) == idx - lookback_period + 1
OfferedPrices ==
    IF InPortfolio /\ Len(market[symbol].closes) >= BarNo(i)
    THEN {market[symbol].closes[BarNo(i)]}
    ELSE BarPrices(data, i)
OfferedReadings ==
    IF InPortfolio /\ Len(market[symbol].readings) >= BarNo(i)
    THEN {market[symbol].readings[BarNo(i)]}
    ELSE BarReadings(data, i)

(***************************************************************************)
(* Trade records.                                                          *)
(***************************************************************************)
SellRecord(date, reason, price, shares, entry_price) ==
    LET proceeds == shares * price
        profit == proceeds - shares * entry_price
    IN  [ date |-> date, type |-> "SELL", reason |-> reason,
          price |-> price,
          shares |-> Round(shares, ShareQuantum),
          amount |-> Round(proceeds, MoneyQuantum),
          entry_price |-> entry_price,
          profit |-> Round(profit, MoneyQuantum),
          position_size |-> 0, severity |-> 0 ]

BuyRecord(date, price, shares, position_size, severity) ==
    [ date |-> date, type |-> "BUY", reason |-> "None",
      price |-> price,
      shares |-> Round(shares, ShareQuantum),
      amount |-> Round(shares * price, MoneyQuantum),
      entry_price |-> price,
      profit |-> 0,
      position_size |-> Round(position_size, MoneyQuantum),
      severity |-> severity ]

(***************************************************************************)
(* backtest_strategy: the exit phase of a bar.                             *)
(***************************************************************************)
\* Mutant: the trailing stop is tested before the stop-loss.
check_exit_TrailingFirst(pos, price) ==
    IF should_trailing_stop(pos, price) THEN "TRAILING_STOP"
    ELSE IF should_stop_loss(pos, price) THEN "STOP_LOSS"
    ELSE "None"

\* The if / elif of the exit loop: the stop-loss is tested first.
check_exit(pos, price) ==
    IF should_stop_loss(pos, price) THEN "STOP_LOSS"
    ELSE IF should_trailing_stop(pos, price) THEN "TRAILING_STOP"
    ELSE "None"

\* Mutant: the closed lot is removed from the list while the loop runs over
\* it, so the lot after it is neither marked nor tested on this bar.
RECURSIVE ExitLoop_RemovesInLoop(_, _, _, _, _)
ExitLoop_RemovesInLoop(ps, k, price, date, acc) ==
    IF k > Len(ps) THEN acc
    ELSE LET pos == update_trailing_stop(ps[k], price)
             reason == check_exit(pos, price)
             proceeds == pos.shares * price
             profit == proceeds - (pos.shares * pos.entry_price)
         IN  IF reason = "None"
             THEN ExitLoop_RemovesInLoop(ps, k + 1, price, date,
                           [acc EXCEPT !.kept = Append(@, pos)])
             ELSE ExitLoop_RemovesInLoop(ps, k + 2, price, date,
                    [acc EXCEPT
                       !.kept = IF k + 1 <= Len(ps) THEN Append(@, ps[k + 1]) ELSE @,
                       !.trades = Append(@, SellRecord(date, reason, price,
                                                       pos.shares, pos.entry_price)),
                       !.total_sold_value = @ + proceeds,
                       !.stop_loss_triggers =
                           IF reason = "STOP_LOSS" THEN @ + 1 ELSE @,
                       !.trailing_stop_triggers =
                           IF reason = "TRAILING_STOP" THEN @ + 1 ELSE @,
                       !.perf = update_performance(@, profit)])

\* for pos in positions: mark, test, sell; kept is positions once the lots of
\* positions_to_remove have been removed.
RECURSIVE ExitLoop(_, _, _, _, _)
ExitLoop(ps, k, price, date, acc) ==
    IF k > Len(ps) THEN acc
    ELSE LET pos == update_trailing_stop(ps[k], price)
             reason == check_exit(pos, price)
             proceeds == pos.shares * price
             profit == proceeds - (pos.shares * pos.entry_price)
         IN  IF reason = "None"
             THEN ExitLoop(ps, k + 1, price, date,
                           [acc EXCEPT !.kept = Append(@, pos)])
             ELSE ExitLoop(ps, k + 1, price, date,
                    [acc EXCEPT
                       !.trades = Append(@, SellRecord(date, reason, price,
                                                       pos.shares, pos.entry_price)),
                       !.total_sold_value = @ + proceeds,
                       !.stop_loss_triggers =
                           IF reason = "STOP_LOSS" THEN @ + 1 ELSE @,
                       !.trailing_stop_triggers =
                           IF reason = "TRAILING_STOP" THEN @ + 1 ELSE @,
                       !.perf = update_performance(@, profit)])

ExitPhase ==
    /\ pc = "exits"
    /\ \E price \in OfferedPrices :
         LET acc == ExitLoop(positions, 1, price, i,
                       [ kept |-> << >>,
                         trades |-> trades,
                         total_sold_value |-> total_sold_value,
                         stop_loss_triggers |-> stop_loss_triggers,
                         trailing_stop_triggers |-> trailing_stop_triggers,
                         perf |-> stock_performance[PerfKey(symbol)] ])
         IN  /\ current_price' = price
             /\ positions' = acc.kept
             /\ trades' = acc.trades
             /\ total_sold_value' = acc.total_sold_value
             /\ stop_loss_triggers' = acc.stop_loss_triggers
             /\ trailing_stop_triggers' = acc.trailing_stop_triggers
             /\ stock_performance' =
                    [stock_performance EXCEPT ![PerfKey(symbol)] = acc.perf]
             /\ market' =
                    IF InPortfolio /\ Len(market[symbol].closes) < BarNo(i)
                    THEN [market EXCEPT ![symbol].closes = Append(@, price)]
                    ELSE market
    /\ bar_lots' = positions
    /\ bar_first' = Len(trades)
    /\ bar_signal' = NoSignal
    /\ bar_bought' = << >>
    /\ pc' = "signal"
    /\ UNCHANGED << data, i, total_invested, anomalies_detected, overbought_sells,
                    result, live_positions, live_ret, sizer_out, portfolio_vars, detector_vars, optimizer_vars, scheduler_vars, basic_vars >>

(***************************************************************************)
(* backtest_strategy: the signal phase of a bar.                           *)
(***************************************************************************)
\* Mutant: the lot with the most shares is chosen.
MinShares_Largest(ps) ==
    CHOOSE k \in 1..Len(ps) :
        /\ \A j \in 1..Len(ps) : ps[k].shares >= ps[j].shares
        /\ \A j \in 1..(k - 1) : ps[j].shares < ps[k].shares

\* min(positions, key=lambda p: p.shares): the first lot with the fewest shares.
MinShares(ps) ==
    CHOOSE k \in 1..Len(ps) :
        /\ \A j \in 1..Len(ps) : ps[k].shares <= ps[j].shares
        /\ \A j \in 1..(k - 1) : ps[j].shares > ps[k].shares

\* Mutant: the reduced lot is never removed.
RemoveAt_Keeps(ps, k) == ps

RemoveAt(ps, k) == [j \in 1..(Len(ps) - 1) |-> IF j < k THEN ps[j] ELSE ps[j + 1]]

\* shares_to_sell = pos_to_sell.shares * 0.25
PartialShares(shares) == (shares * 25) \div 100

\* Mutant: a signal without direction is traded as a BUY.
BuysOn_DefaultBuy(info) ==
    /\ info.is_anomaly
    /\ info.severity >= min_severity
    /\ info.signal_type \in {"BUY", "MIXED", "None"}

BuysOn(info) ==
    /\ info.is_anomaly
    /\ info.severity >= min_severity
    /\ info.signal_type \in {"BUY", "MIXED"}

\* The BUY branch.  st holds the locals the signal phase changes: positions,
\* trades, total_invested, total_sold_value, overbought_sells, and perf, the
\* performance record of the symbol.
HandleBuy(st, info, price, date) ==
    IF BuysOn(info)
    THEN LET position_size == get_position_size(st.perf)
             shares_to_buy == position_size \div price
             cost == shares_to_buy * price
             new_position == NewPosition(shares_to_buy, price, date, position_size)
         IN  [ st EXCEPT
                 !.trades = Append(@, BuyRecord(date, price, shares_to_buy,
                                                position_size, info.severity)),
                 !.positions = Append(@, new_position),
                 !.total_invested = @ + cost ]
    ELSE st

SellsOn(info, ps) ==
    /\ info.is_anomaly
    /\ info.severity >= min_severity
    /\ info.signal_type \in {"SELL", "MIXED"}
    /\ Len(ps) > 0
    /\ info.severity >= StrongSeverity

\* The OVERBOUGHT branch.
HandleSell(st, info, price, date) ==
    IF SellsOn(info, st.positions)
    THEN LET k == MinShares(st.positions)
             pos_to_sell == st.positions[k]
             shares_to_sell == PartialShares(pos_to_sell.shares)
             proceeds == shares_to_sell * price
             profit == proceeds - (shares_to_sell * pos_to_sell.entry_price)
             left == pos_to_sell.shares - shares_to_sell
             reduced == [st.positions EXCEPT ![k].shares = left]
         IN  IF shares_to_sell > 0
             THEN [ st EXCEPT
                      !.trades = Append(@, SellRecord(date, "OVERBOUGHT", price,
                                             shares_to_sell, pos_to_sell.entry_price)),
                      !.positions = IF left < DustShares THEN RemoveAt(reduced, k)
                                    ELSE reduced,
                      !.total_sold_value = @ + proceeds,
                      !.overbought_sells = @ + 1,
                      !.perf = update_performance(@, profit) ]
             ELSE st
    ELSE st

\* Mutant: the OVERBOUGHT branch runs before the BUY branch.
SignalStep_SellFirst(st, info, price, date) ==
    HandleBuy(HandleSell(st, info, price, date), info, price, date)

\* The body of "if anomaly_info['is_anomaly']": the BUY branch, then the
\* OVERBOUGHT branch.
SignalStep(st, info, price, date) ==
    HandleSell(HandleBuy(st, info, price, date), info, price, date)

SignalPhase ==
    /\ pc = "signal"
    /\ \E reading \in OfferedReadings :
         LET anomaly_info == detect_all_anomalies(reading)
             st0 == [ positions |-> positions,
                      trades |-> trades,
                      total_invested |-> total_invested,
                      total_sold_value |-> total_sold_value,
                      overbought_sells |-> overbought_sells,
                      perf |-> stock_performance[PerfKey(symbol)] ]
             st1 == HandleBuy(st0, anomaly_info, current_price, i)
             st2 == SignalStep(st0, anomaly_info, current_price, i)
         IN  /\ bar_signal' = anomaly_info
             /\ bar_bought' = st1.positions
             /\ anomalies_detected' =
                    IF anomaly_info.is_anomaly THEN anomalies_detected + 1
                    ELSE anomalies_detected
             /\ positions' = st2.positions
             /\ trades' = st2.trades
             /\ total_invested' = st2.total_invested
             /\ total_sold_value' = st2.total_sold_value
             /\ overbought_sells' = st2.overbought_sells
             /\ stock_performance' =
                    [stock_performance EXCEPT ![PerfKey(symbol)] = st2.perf]
             /\ market' =
                    IF InPortfolio /\ Len(market[symbol].readings) < BarNo(i)
                    THEN [market EXCEPT ![symbol].readings = Append(@, reading)]
                    ELSE market
    /\ i' = i + 1
    /\ pc' = IF i + 1 < data.len THEN "exits" ELSE "final"
    /\ UNCHANGED << data, current_price, stop_loss_triggers, trailing_stop_triggers,
                    result, bar_lots, bar_first, live_positions, live_ret,
                    sizer_out, portfolio_vars, detector_vars, optimizer_vars, scheduler_vars, basic_vars >>

(***************************************************************************)
(* backtest_strategy: entry, and the valuation after the last bar.         *)
(***************************************************************************)
\* The dictionary returned for a series that is empty or shorter than MinBars.
ShortResult ==
    [ kind |-> "short", total_trades |-> 0, total_invested |-> 0,
      current_value |-> 0, profit_loss |-> 0, return_pct |-> 0,
      anomalies_detected |-> 0, trades |-> << >>, stop_loss_triggers |-> 0,
      trailing_stop_triggers |-> 0, overbought_sells |-> 0 ]

\* Mutant: only an empty series is turned away.
TooShort_EmptyOnly(d) == d.len = 0

\* data.empty or len(data) < 30
TooShort(d) == d.len = 0 \/ d.len < MinBars

Start ==
    /\ pc = "start"
    /\ \E raw \in Offered :
         /\ data' = fetch_stock_data(raw)
         /\ market' = IF InPortfolio
                      THEN [market EXCEPT ![symbol].fetched = TRUE,
                                          ![symbol].raw = raw]
                      ELSE market
         /\ IF TooShort(fetch_stock_data(raw))
            THEN /\ result' = ShortResult
                 /\ pc' = "done"
                 /\ i' = i
            ELSE /\ result' = result
                 /\ pc' = "exits"
                 /\ i' = lookback_period
    /\ trades' = << >>
    /\ total_invested' = 0
    /\ total_sold_value' = 0
    /\ positions' = << >>
    /\ anomalies_detected' = 0
    /\ stop_loss_triggers' = 0
    /\ trailing_stop_triggers' = 0
    /\ overbought_sells' = 0
    /\ UNCHANGED << current_price, stock_performance, bar_lots, bar_first,
                    bar_signal, bar_bought, live_positions, live_ret, sizer_out,
                    portfolio_vars, detector_vars, optimizer_vars, scheduler_vars, basic_vars >>

RECURSIVE SumShares(_, _)
SumShares(ps, k) == IF k > Len(ps) THEN 0 ELSE ps[k].shares + SumShares(ps, k + 1)

\* for pos in positions: total_sold_value += proceeds; update_performance(...)
RECURSIVE CloseRemaining(_, _, _, _)
CloseRemaining(ps, k, final_price, acc) ==
    IF k > Len(ps) THEN acc
    ELSE LET proceeds == ps[k].shares * final_price
             profit == proceeds - (ps[k].shares * ps[k].entry_price)
         IN  CloseRemaining(ps, k + 1, final_price,
                 [ total_sold_value |-> acc.total_sold_value + proceeds,
                   perf |-> update_performance(acc.perf, profit) ])

\* return_pct in hundredths of a percent, from amounts taken in cents.
ReturnPct(profit_loss, invested) ==
    ((profit_loss \div MoneyQuantum) * 100 * 100) \div (invested \div MoneyQuantum)

CountType(ts, type) == Cardinality({k \in 1..Len(ts) : ts[k].type = type})

\* The code after the bar loop: run holds the locals of the call and perf,
\* the record of the symbol.  Gives the dictionary returned, and the
\* total_sold_value and the record the code ends with.
EndOfSeries(run, final_price) ==
    LET acc == CloseRemaining(run.positions, 1, final_price,
                   [ total_sold_value |-> run.total_sold_value,
                     perf |-> run.perf ])
        current_value == SumShares(run.positions, 1) * final_price
        total_value == current_value + acc.total_sold_value
        profit_loss == total_value - run.total_invested
    IN  [ total_sold_value |-> acc.total_sold_value,
          perf |-> acc.perf,
          result |->
            IF run.total_invested > 0
            THEN [ kind |-> "full",
                   total_trades |-> Len(run.trades),
                   buy_trades |-> CountType(run.trades, "BUY"),
                   sell_trades |-> CountType(run.trades, "SELL"),
                   total_invested |-> Round(run.total_invested, MoneyQuantum),
                   total_sold_value |-> Round(acc.total_sold_value, MoneyQuantum),
                   shares_owned |-> Round(SumShares(run.positions, 1), ShareQuantum),
                   final_price |-> final_price,
                   current_value |-> Round(current_value, MoneyQuantum),
                   total_value |-> Round(total_value, MoneyQuantum),
                   profit_loss |-> Round(profit_loss, MoneyQuantum),
                   return_pct |-> ReturnPct(profit_loss, run.total_invested),
                   anomalies_detected |-> run.anomalies_detected,
                   stop_loss_triggers |-> run.stop_loss_triggers,
                   trailing_stop_triggers |-> run.trailing_stop_triggers,
                   overbought_sells |-> run.overbought_sells,
                   trades |-> run.trades ]
            ELSE [ kind |-> "zero",
                   total_trades |-> 0, buy_trades |-> 0, sell_trades |-> 0,
                   total_invested |-> 0, total_sold_value |-> 0,
                   current_value |-> 0, total_value |-> 0,
                   profit_loss |-> 0, return_pct |-> 0,
                   anomalies_detected |-> run.anomalies_detected,
                   stop_loss_triggers |-> 0, trailing_stop_triggers |-> 0,
                   overbought_sells |-> 0, trades |-> << >> ] ]

Finalize ==
    /\ pc = "final"
    /\ LET end == EndOfSeries(
                     [ positions |-> positions,
                       trades |-> trades,
                       total_invested |-> total_invested,
                       total_sold_value |-> total_sold_value,
                       anomalies_detected |-> anomalies_detected,
                       stop_loss_triggers |-> stop_loss_triggers,
                       trailing_stop_triggers |-> trailing_stop_triggers,
                       overbought_sells |-> overbought_sells,
                       perf |-> stock_performance[PerfKey(symbol)] ],
                     current_price)
       IN  /\ total_sold_value' = end.total_sold_value
           /\ stock_performance' =
                  [stock_performance EXCEPT ![PerfKey(symbol)] = end.perf]
           /\ result' = end.result
    /\ pc' = "done"
    /\ UNCHANGED << data, i, current_price, positions, trades, total_invested,
                    anomalies_detected, stop_loss_triggers, trailing_stop_triggers,
                    overbought_sells, bar_lots, bar_first, bar_signal,
                    bar_bought, live_positions, live_ret, sizer_out,
                    portfolio_vars, market, detector_vars, optimizer_vars, scheduler_vars, basic_vars >>

(***************************************************************************)
(* run_backtest: the loop over self.stocks and the summary.                *)
(***************************************************************************)
\* symbol.strip().upper()
Normalize(name) == IF name = " aapl" THEN "AAPL" ELSE name

StockLists ==
    { << "AAPL", "MSFT" >>, << "MSFT", "AAPL" >>, << "AAPL", " aapl" >> }

NoResults == [s \in Symbols |-> NoResult]

ZeroTotals ==
    [ total_invested_all |-> 0, total_value_all |-> 0, total_anomalies |-> 0,
      total_stop_losses |-> 0, total_trailing_stops |-> 0,
      total_overbought_sells |-> 0 ]

\* result.get(key, default)
Get(r, key, default) == IF key \in DOMAIN r THEN r[key] ELSE default

\* Mutant: the value of a result is its unrealized value alone.
AddResult_CurrentValueOnly(t, r) ==
    [ total_invested_all     |-> t.total_invested_all + r.total_invested,
      total_value_all        |-> t.total_value_all + r.current_value,
      total_anomalies        |-> t.total_anomalies + r.anomalies_detected,
      total_stop_losses      |-> t.total_stop_losses
                                   + Get(r, "stop_loss_triggers", 0),
      total_trailing_stops   |-> t.total_trailing_stops
                                   + Get(r, "trailing_stop_triggers", 0),
      total_overbought_sells |-> t.total_overbought_sells
                                   + Get(r, "overbought_sells", 0) ]

\* The body of the loop once backtest_strategy has returned r.
AddResult(t, r) ==
    [ total_invested_all     |-> t.total_invested_all + r.total_invested,
      total_value_all        |-> t.total_value_all
                                   + Get(r, "total_value", r.current_value),
      total_anomalies        |-> t.total_anomalies + r.anomalies_detected,
      total_stop_losses      |-> t.total_stop_losses
                                   + Get(r, "stop_loss_triggers", 0),
      total_trailing_stops   |-> t.total_trailing_stops
                                   + Get(r, "trailing_stop_triggers", 0),
      total_overbought_sells |-> t.total_overbought_sells
                                   + Get(r, "overbought_sells", 0) ]

\* round(100 * num / den, 2), in hundredths of a percent: num and den are
\* amounts of the same unit.
RoundPct(num, den) ==
    LET q == (num * 100 * 100) \div den
        r == (num * 100 * 100) % den
    IN  IF 2 * r < den THEN q
        ELSE IF 2 * r > den THEN q + 1
        ELSE IF q % 2 = 0 THEN q ELSE q + 1

RECURSIVE SumTrades(_, _)
SumTrades(rs, S) ==
    IF S = {} THEN 0
    ELSE LET sym == CHOOSE x \in S : TRUE
         IN  rs[sym].total_trades + SumTrades(rs, S \ {sym})

Summary(t, rs) ==
    LET total_profit_loss == t.total_value_all - t.total_invested_all
        overall_return_pct ==
            IF t.total_invested_all > 0
            THEN RoundPct(total_profit_loss \div MoneyQuantum,
                          t.total_invested_all \div MoneyQuantum)
            ELSE 0
    IN  [ kind |-> "summary",
          total_invested |-> Round(t.total_invested_all, MoneyQuantum),
          total_value |-> Round(t.total_value_all, MoneyQuantum),
          total_profit_loss |-> Round(total_profit_loss, MoneyQuantum),
          overall_return_pct |-> overall_return_pct,
          total_trades |->
              SumTrades(rs, {sym \in Symbols : rs[sym].kind # "none"}),
          total_anomalies_detected |-> t.total_anomalies,
          stop_loss_triggers |-> t.total_stop_losses,
          trailing_stop_triggers |-> t.total_trailing_stops,
          overbought_sells |-> t.total_overbought_sells ]

\* One turn of "for symbol in self.stocks" from the return of
\* backtest_strategy on: the result is filed and added to the totals; the
\* loop goes to the next stock, or ends and the summary is built.
Collect ==
    /\ pc = "done"
    /\ InPortfolio
    /\ stock_idx <= Len(stocks)
    /\ results' = [results EXCEPT ![symbol] = result]
    /\ run_results' = Append(run_results, result)
    /\ totals' = AddResult(totals, result)
    /\ IF stock_idx < Len(stocks)
       THEN /\ stock_idx' = stock_idx + 1
            /\ symbol' = Normalize(stocks[stock_idx + 1])
            /\ summary' = summary
            /\ pc' = "start"
       ELSE /\ stock_idx' = stock_idx + 1
            /\ symbol' = symbol
            /\ summary' = Summary(AddResult(totals, result),
                                  [results EXCEPT ![symbol] = result])
            /\ pc' = "summary"
    /\ UNCHANGED << data, i, current_price, positions, trades, total_invested,
                    total_sold_value, anomalies_detected, stop_loss_triggers,
                    trailing_stop_triggers, overbought_sells, stock_performance,
                    result, bar_lots, bar_first, bar_signal, bar_bought,
                    live_positions, live_ret, sizer_out, stocks, market, detector_vars, optimizer_vars, scheduler_vars, basic_vars >>

(***************************************************************************)
(* LivePositionTracker.                                                    *)
(***************************************************************************)
LiveShares == {1000 * 1000, 3 * 1000 * 1000}

add_position(tracked, sym, shares, entry_price) ==
    (sym :> [ shares              |-> shares,
                 entry_price         |-> entry_price,
                 highest_price       |-> entry_price,
                 stop_loss_price     |-> entry_price * (100 - StopLossPct),
                 trailing_stop_price |-> entry_price * (100 - TrailingStopPct) ])
    @@ tracked

\* The position of update_position once the highest price has been updated.
LiveMark(pos, price) ==
    IF price > pos.highest_price
    THEN [pos EXCEPT !.highest_price = price,
                     !.trailing_stop_price = price * (100 - TrailingStopPct)]
    ELSE pos

\* The two checks of update_position, in the order of the code.
LiveCheck(pos, price) ==
    IF price * 100 <= pos.stop_loss_price
    THEN [should_sell |-> TRUE, reason |-> "STOP_LOSS"]
    ELSE IF price * 100 <= pos.trailing_stop_price
    THEN [should_sell |-> TRUE, reason |-> "TRAILING_STOP"]
    ELSE [should_sell |-> FALSE, reason |-> "None"]

remove_position(tracked, sym) ==
    [s \in DOMAIN tracked \ {sym} |-> tracked[s]]

NoCall == [op |-> "none"]

AddPosition ==
    /\ pc = "live"
    /\ \E sym \in Symbols, shares \in LiveShares, entry_price \in Prices :
         /\ live_positions' = add_position(live_positions, sym, shares, entry_price)
         /\ live_ret' = [op |-> "add_position", symbol |-> sym]
    /\ UNCHANGED << pc, data, i, current_price, positions, trades, total_invested,
                    total_sold_value, anomalies_detected, stop_loss_triggers,
                    trailing_stop_triggers, overbought_sells, stock_performance,
                    result, bar_lots, bar_first, bar_signal, bar_bought,
                    sizer_out, portfolio_vars, market, detector_vars, optimizer_vars, scheduler_vars, basic_vars >>

UpdatePosition ==
    /\ pc = "live"
    /\ \E sym \in Symbols, price \in Prices :
         IF sym \notin DOMAIN live_positions
         THEN /\ live_positions' = live_positions
              /\ live_ret' = [op |-> "update_position", symbol |-> sym,
                              price |-> price, tracked |-> FALSE,
                              should_sell |-> FALSE, reason |-> "None"]
         ELSE LET pos == LiveMark(live_positions[sym], price)
                  ret == LiveCheck(pos, price)
              IN  /\ live_positions' = [live_positions EXCEPT ![sym] = pos]
                  /\ live_ret' = [op |-> "update_position", symbol |-> sym,
                                  price |-> price, tracked |-> TRUE,
                                  should_sell |-> ret.should_sell,
                                  reason |-> ret.reason]
    /\ UNCHANGED << pc, data, i, current_price, positions, trades, total_invested,
                    total_sold_value, anomalies_detected, stop_loss_triggers,
                    trailing_stop_triggers, overbought_sells, stock_performance,
                    result, bar_lots, bar_first, bar_signal, bar_bought,
                    sizer_out, portfolio_vars, market, detector_vars, optimizer_vars, scheduler_vars, basic_vars >>

RemovePosition ==
    /\ pc = "live"
    /\ \E sym \in Symbols :
         /\ live_positions' = remove_position(live_positions, sym)
         /\ live_ret' = [op |-> "remove_position", symbol |-> sym]
    /\ UNCHANGED << pc, data, i, current_price, positions, trades, total_invested,
                    total_sold_value, anomalies_detected, stop_loss_triggers,
                    trailing_stop_triggers, overbought_sells, stock_performance,
                    result, bar_lots, bar_first, bar_signal, bar_bought,
                    sizer_out, portfolio_vars, market, detector_vars, optimizer_vars, scheduler_vars, basic_vars >>

(***************************************************************************)
(* The detectors on a bar series.  A series is given by the shape of its   *)
(* closes before the current bar, the move of the current close and the    *)
(* gap of the current open from the close the shape gives the bar before,  *)
(* the volume of the earlier bars and of the current bar, and whether the  *)
(* close of the bar before the current one is zero.  idx is current_idx.   *)
(* Percentages are compared exactly; a severity is taken in tenths,        *)
(* rounded down.  A division by a zero float gives an infinity, or NaN for *)
(* 0 / 0: Infinity stands for an infinite severity.                        *)
(***************************************************************************)
Infinity == 1000 * 1000
RsiPeriod == 14

Shapes == {"flat", "wiggle", "rising", "falling"}

Base(shape, j) ==
    CASE shape = "flat"   -> 100
      [] shape = "wiggle" -> (IF j % 2 = 0 THEN 102 ELSE 98)
      [] shape = "rising" -> 100 + j
      [] OTHER            -> 130 - j

Close(sr, j) ==
    IF j = sr.idx THEN Base(sr.shape, j - 1) + sr.move
    ELSE IF j = sr.idx - 1 /\ sr.prev_zero THEN 0
    ELSE Base(sr.shape, j)

Open(sr, j) ==
    IF j = sr.idx THEN Base(sr.shape, j - 1) + sr.gap ELSE Base(sr.shape, j)

Volume(sr, j) == IF j = sr.idx THEN sr.volume ELSE sr.hist_volume

NoSeries ==
    [ idx |-> 0, shape |-> "flat", prev_zero |-> FALSE, move |-> 0, gap |-> 0,
      hist_volume |-> 0, volume |-> 0 ]

DetectorInputs ==
    [ idx : {0, 1, 13, 14, 19, 20},
      shape : Shapes,
      prev_zero : BOOLEAN,
      move : {-8, 0, 1, 8},
      gap : {-3, 0, 3},
      hist_volume : {0, 1000},
      volume : {1000, 2500} ]

RECURSIVE SumSeq(_)
SumSeq(q) == IF q = << >> THEN 0 ELSE Head(q) + SumSeq(Tail(q))

Abs(x) == IF x < 0 THEN -x ELSE x

\* The largest t with t * t <= x.
Isqrt(x) == CHOOSE t \in 0..1000 : t * t <= x /\ x < (t + 1) * (t + 1)

\* historical = data.iloc[current_idx - lookback_period : current_idx]
HistCloses(sr) ==
    [k \in 1..lookback_period |-> Close(sr, sr.idx - lookback_period + k - 1)]
HistVolumes(sr) ==
    [k \in 1..lookback_period |-> Volume(sr, sr.idx - lookback_period + k - 1)]

\* z_score = (current_price - mean_price) / std_price if std_price > 0 else 0.
\* With n closes of sum S and sum of squares Q, n * (close - mean) is Dev and
\* n * (n - 1) * variance is Spread.
ZDev(sr) == lookback_period * Close(sr, sr.idx) - SumSeq(HistCloses(sr))
ZSpread(sr) ==
    LET h == HistCloses(sr)
        S == SumSeq(h)
        Q == SumSeq([k \in 1..lookback_period |-> h[k] * h[k]])
    IN  lookback_period * Q - S * S
\* abs(z_score) > 2.0
ZBeyondTwo(sr) ==
    /\ ZSpread(sr) > 0
    /\ ZDev(sr) * ZDev(sr) * (lookback_period - 1)
           > 4 * lookback_period * ZSpread(sr)
ZBelow(sr) == ZBeyondTwo(sr) /\ ZDev(sr) < 0
ZAbove(sr) == ZBeyondTwo(sr) /\ ZDev(sr) > 0
\* abs(z_score), in tenths
ZSeverity(sr) ==
    Isqrt((100 * ZDev(sr) * ZDev(sr) * (lookback_period - 1))
              \div (lookback_period * ZSpread(sr)))

\* 100 * a / b compared with k, for b >= 0: a division by zero gives +inf or
\* -inf by the sign of a.
PctAbove(a, b, k) == IF b = 0 THEN a > 0 ELSE a * 100 > k * b
PctBelow(a, b, k) == IF b = 0 THEN a < 0 ELSE a * 100 < k * b
\* abs(100 * a / b) / d, in tenths
PctSeverity(a, b, d) ==
    IF b = 0 THEN Infinity ELSE (Abs(a) * 1000) \div (d * b)

PrevClose(sr) == Close(sr, sr.idx - 1)
price_change(sr) == Close(sr, sr.idx) - PrevClose(sr)
gap(sr) == Open(sr, sr.idx) - PrevClose(sr)

\* historical['Close'].pct_change().std() * 100 against abs(price_change_pct):
\* the day-over-day changes of the window are taken in hundredths of a
\* percent.  A zero previous close makes the current change infinite and is
\* itself a finite change of -100% in the window.
VolatilitySpike(sr) ==
    IF PrevClose(sr) = 0 THEN price_change(sr) # 0
    ELSE LET h == HistCloses(sr)
             m == lookback_period - 1
             P == [k \in 1..m |-> ((h[k + 1] - h[k]) * 100 * 100) \div h[k]]
             SP == SumSeq(P)
             QP == SumSeq([k \in 1..m |-> P[k] * P[k]])
             V == (Abs(price_change(sr)) * 100 * 100) \div PrevClose(sr)
         IN  V * V * m * (m - 1) > 4 * (m * QP - SP * SP)

Tag(fires, name, severity) == IF fires THEN name :> severity ELSE QuietReading

detect_price_anomaly(sr) ==
    IF sr.idx < lookback_period
    THEN [is_anomaly |-> FALSE, reading |-> QuietReading]
    ELSE LET reading ==
                 Tag(ZBelow(sr), "oversold", ZSeverity(sr))
              @@ Tag(ZAbove(sr), "overbought", ZSeverity(sr))
              @@ Tag(PctBelow(price_change(sr), PrevClose(sr), -3), "extreme_drop",
                     PctSeverity(price_change(sr), PrevClose(sr), 3))
              @@ Tag(PctAbove(price_change(sr), PrevClose(sr), 3), "extreme_rise",
                     PctSeverity(price_change(sr), PrevClose(sr), 3))
              @@ Tag(VolatilitySpike(sr), "volatility_spike", 10)
         IN  [is_anomaly |-> DOMAIN reading # {}, reading |-> reading]

\* volume_ratio = current_volume / mean_volume if mean_volume > 0 else 1
VolumeSpike(sr) ==
    /\ SumSeq(HistVolumes(sr)) > 0
    /\ Volume(sr, sr.idx) * lookback_period > 2 * SumSeq(HistVolumes(sr))

detect_volume_anomaly(sr) ==
    IF sr.idx < lookback_period THEN [is_anomaly |-> FALSE]
    ELSE [is_anomaly |-> VolumeSpike(sr)]

detect_gap_anomaly(sr) ==
    IF sr.idx < 1
    THEN [is_anomaly |-> FALSE, gap_down |-> FALSE, gap_up |-> FALSE,
          severity |-> 0]
    ELSE LET is_gap_down == PctBelow(gap(sr), PrevClose(sr), -2)
             is_gap_up == PctAbove(gap(sr), PrevClose(sr), 2)
         IN  [ is_anomaly |-> is_gap_down \/ is_gap_up,
               gap_down |-> is_gap_down, gap_up |-> is_gap_up,
               severity |-> PctSeverity(gap(sr), PrevClose(sr), 2) ]

\* _calculate_rsi at the current bar: with G the sum of the rises and L the
\* sum of the falls of the last 14 day-over-day changes, rs = G / L and
\* rsi = 100 - 100 / (1 + rs).  L = 0 gives rs = inf and rsi = 100 when G > 0,
\* and rs = NaN, rsi = NaN when G = 0.  rsi is num / den.
Rises(sr) ==
    SumSeq([k \in 1..RsiPeriod |->
              LET d == Close(sr, sr.idx - RsiPeriod + k)
                         - Close(sr, sr.idx - RsiPeriod + k - 1)
              IN  IF d > 0 THEN d ELSE 0])
Falls(sr) ==
    SumSeq([k \in 1..RsiPeriod |->
              LET d == Close(sr, sr.idx - RsiPeriod + k)
                         - Close(sr, sr.idx - RsiPeriod + k - 1)
              IN  IF d < 0 THEN -d ELSE 0])
calculate_rsi(sr) ==
    IF Falls(sr) = 0
    THEN (IF Rises(sr) > 0 THEN [nan |-> FALSE, num |-> 100, den |-> 1]
          ELSE [nan |-> TRUE, num |-> 0, den |-> 1])
    ELSE [nan |-> FALSE, num |-> 100 * Rises(sr), den |-> Rises(sr) + Falls(sr)]

RsiBelow(rsi, k) == rsi.num < k * rsi.den
RsiAbove(rsi, k) == rsi.num > k * rsi.den
\* (30 - rsi) / 10 and (rsi - 70) / 10, in tenths
RsiOversoldSeverity(rsi) == (30 * rsi.den - rsi.num) \div rsi.den
RsiOverboughtSeverity(rsi) == (rsi.num - 70 * rsi.den) \div rsi.den

detect_rsi_anomaly(sr) ==
    IF sr.idx < RsiPeriod \/ calculate_rsi(sr).nan
    THEN [is_anomaly |-> FALSE, oversold |-> FALSE, overbought |-> FALSE,
          rsi |-> calculate_rsi(NoSeries)]
    ELSE LET rsi == calculate_rsi(sr)
         IN  [ is_anomaly |-> RsiBelow(rsi, 30) \/ RsiAbove(rsi, 70),
               oversold |-> RsiBelow(rsi, 30),
               overbought |-> RsiAbove(rsi, 70),
               rsi |-> rsi ]

\* detect_all_anomalies down to "Determine if this is a buy or sell signal":
\* the tags and the severity each adds.
DetectorReading(sr) ==
    LET price_anomaly == detect_price_anomaly(sr)
        volume_anomaly == detect_volume_anomaly(sr)
        gap_anomaly == detect_gap_anomaly(sr)
        rsi_anomaly == detect_rsi_anomaly(sr)
    IN     (IF price_anomaly.is_anomaly THEN price_anomaly.reading ELSE QuietReading)
        @@ Tag(volume_anomaly.is_anomaly, "volume_spike", 10)
        @@ Tag(gap_anomaly.is_anomaly /\ gap_anomaly.gap_down, "gap_down",
               gap_anomaly.severity)
        @@ Tag(gap_anomaly.is_anomaly /\ gap_anomaly.gap_up, "gap_up",
               gap_anomaly.severity)
        @@ Tag(rsi_anomaly.is_anomaly /\ rsi_anomaly.oversold, "rsi_oversold",
               RsiOversoldSeverity(rsi_anomaly.rsi))
        @@ Tag(rsi_anomaly.is_anomaly /\ rsi_anomaly.overbought, "rsi_overbought",
               RsiOverboughtSeverity(rsi_anomaly.rsi))

\* LiveAnomalyDetector.detect_anomalies on the series as fetched: the current
\* bar is the last one; current_rsi is 50 when the RSI is NaN.
LiveReading(sr) ==
    LET rsi == IF calculate_rsi(sr).nan THEN [nan |-> FALSE, num |-> 50, den |-> 1]
               ELSE calculate_rsi(sr)
    IN     Tag(ZBelow(sr), "oversold", ZSeverity(sr))
        @@ Tag(PctBelow(price_change(sr), PrevClose(sr), -3), "extreme_drop",
               PctSeverity(price_change(sr), PrevClose(sr), 3))
        @@ Tag(PctBelow(gap(sr), PrevClose(sr), -2), "gap_down",
               PctSeverity(gap(sr), PrevClose(sr), 2))
        @@ Tag(RsiBelow(rsi, 30), "rsi_oversold", RsiOversoldSeverity(rsi))
        @@ Tag(ZAbove(sr), "overbought", ZSeverity(sr))
        @@ Tag(PctAbove(price_change(sr), PrevClose(sr), 3), "extreme_rise",
               PctSeverity(price_change(sr), PrevClose(sr), 3))
        @@ Tag(PctAbove(gap(sr), PrevClose(sr), 2), "gap_up",
               PctSeverity(gap(sr), PrevClose(sr), 2))
        @@ Tag(RsiAbove(rsi, 70), "rsi_overbought", RsiOverboughtSeverity(rsi))
        @@ Tag(VolumeSpike(sr), "volume_spike", 10)

\* Mutant: a SELL tag overrides the BUY tags.
LiveSignalType_SellWins(anomalies) ==
    IF anomalies \cap sell_signals # {} THEN "SELL"
    ELSE IF anomalies \cap buy_signals # {} THEN "BUY"
    ELSE "None"

\* "Determine signal type" of detect_anomalies.
LiveSignalType(anomalies) ==
    LET first == IF anomalies \cap buy_signals # {} THEN "BUY" ELSE "None"
    IN  IF anomalies \cap sell_signals # {}
        THEN (IF first = "BUY" THEN "MIXED" ELSE "SELL")
        ELSE first

live_detect_anomalies(sr) ==
    IF sr.idx + 1 < lookback_period + 1
    THEN [is_anomaly |-> FALSE, anomaly_types |-> {}, severity |-> 0,
          signal_type |-> "None"]
    ELSE LET reading == LiveReading(sr)
         IN  [ is_anomaly |-> Cardinality(DOMAIN reading) > 0,
               anomaly_types |-> DOMAIN reading,
               severity |-> SumOver(reading, DOMAIN reading),
               signal_type |-> LiveSignalType(DOMAIN reading) ]

NoDetection == [all |-> NoSignal, live |-> NoSignal]

\* detect_all_anomalies(data, current_idx), and detect_anomalies on the bars
\* up to current_idx.
Detect ==
    /\ pc = "detector"
    /\ det_out' = [ all |-> detect_all_anomalies(DetectorReading(det_in)),
                    live |-> live_detect_anomalies(det_in) ]
    /\ pc' = "detected"
    /\ UNCHANGED << data, i, current_price, positions, trades, total_invested,
                    total_sold_value, anomalies_detected, stop_loss_triggers,
                    trailing_stop_triggers, overbought_sells, stock_performance,
                    result, bar_lots, bar_first, bar_signal, bar_bought,
                    live_positions, live_ret, sizer_out, portfolio_vars, market,
                    det_in, optimizer_vars, scheduler_vars, basic_vars >>

(***************************************************************************)
(* AdvancedStrategyOptimizer.optimize_all_stocks.  Money is counted in     *)
(* cents, percentages in hundredths of a percent.  opt_in[k][j] is what    *)
(* test_strategy returns for strategy k on stock j.                        *)
(***************************************************************************)
Strategies == << "consecutive_red", "rsi_oversold", "volume_spike" >>

OptimizerDollars == 10      \* position_size of the optimizer

\* round(n / d, 0) for d > 0, half to even.
RoundRatio(n, d) ==
    LET q == n \div d
        r == n % d
    IN  IF 2 * r < d THEN q
        ELSE IF 2 * r > d THEN q + 1
        ELSE IF q % 2 = 0 THEN q ELSE q + 1

\* What test_strategy returns after the given number of buys when the shares
\* are worth current_value at the last close and the largest drawdown of the
\* holding was max_drawdown.
TestResult(total_trades, current_value, max_drawdown) ==
    LET invested == total_trades * OptimizerDollars * 100
    IN  IF invested > 0
        THEN [ total_trades |-> total_trades,
               total_invested |-> invested,
               current_value |-> current_value,
               profit_loss |-> current_value - invested,
               return_pct |-> RoundRatio((current_value - invested) * 100 * 100,
                                         invested),
               max_drawdown |-> max_drawdown ]
        ELSE [ total_trades |-> 0, total_invested |-> 0, current_value |-> 0,
               profit_loss |-> 0, return_pct |-> 0, max_drawdown |-> 0 ]

FirstStockResults ==
    { TestResult(0, 0, 0),
      TestResult(2, 2040, 0),
      TestResult(2, 2200, 0),
      TestResult(2, 3000, 0),
      TestResult(6, 6600, 0),
      TestResult(6, 5400, 1200) }

SecondStockResults ==
    { TestResult(0, 0, 0),
      TestResult(2, 1400, 3000),
      TestResult(6, 6600, 0) }

OptimizerInputs ==
    [ 1..Len(Strategies) -> { << a, b >> : a \in FirstStockResults,
                                           b \in SecondStockResults } ]

RECURSIVE SumField(_, _)
SumField(rs, f) ==
    IF rs = << >> THEN 0 ELSE Head(rs)[f] + SumField(Tail(rs), f)

RECURSIVE MaxField(_, _)
MaxField(rs, f) ==
    IF rs = << >> THEN 0
    ELSE LET m == MaxField(Tail(rs), f)
         IN  IF Head(rs)[f] > m THEN Head(rs)[f] ELSE m

\* np.std(stock_returns) if len(stock_returns) > 1 else 100, in two-hundredths
\* of a percent: the standard deviation of two returns is half their distance.
Consistency(stock_results) ==
    LET stock_returns == SelectSeq(stock_results, LAMBDA r : r.total_invested > 0)
    IN  IF Len(stock_returns) > 1
        THEN Abs(stock_returns[1].return_pct - stock_returns[2].return_pct)
        ELSE 2 * 100 * 100

\* The body of the loop over the strategies for one strategy: the entry
\* appended to results.  Called when total_invested > 0.
StrategyEntry(name, stock_results) ==
    LET invested == SumField(stock_results, "total_invested")
        total_value == SumField(stock_results, "current_value")
        total_trades == SumField(stock_results, "total_trades")
        max_dd == MaxField(stock_results, "max_drawdown")
        profit_loss == total_value - invested
        consistency == Consistency(stock_results)
        trade_penalty == IF total_trades < 10 THEN 5
                         ELSE IF total_trades > 200 THEN 8 ELSE 10
        \* max(0.5, 1.0 - consistency / 50), in ten-thousandths
        consistency_factor == IF 10000 - consistency > 5000
                              THEN 10000 - consistency ELSE 5000
    IN  [ strategy |-> name,
          total_invested |-> invested,
          total_value |-> total_value,
          profit_loss |-> profit_loss,
          return_pct |-> RoundRatio(profit_loss * 100 * 100, invested),
          total_trades |-> total_trades,
          max_drawdown |-> max_dd,
          consistency |-> RoundRatio(consistency, 2),
          risk_adjusted |->
              IF max_dd > 0
              THEN RoundRatio(profit_loss * 1000 * 1000, invested * (max_dd + 100))
              ELSE RoundRatio(profit_loss * 100 * 100, invested),
          composite_score |->
              RoundRatio(profit_loss * consistency_factor * trade_penalty,
                         invested * 10) ]

RECURSIVE AllEntries(_, _)
AllEntries(inputs, k) ==
    IF k > Len(inputs) THEN << >>
    ELSE IF SumField(inputs[k], "total_invested") > 0
         THEN << StrategyEntry(Strategies[k], inputs[k]) >> \o AllEntries(inputs, k + 1)
         ELSE AllEntries(inputs, k + 1)

\* r['total_trades'] >= 10 or r['return_pct'] > 5
Kept(r) == r.total_trades >= 10 \/ r.return_pct > 500

\* Mutant: the sort looks at the return alone.
KeyLeq_ReturnOnly(a, b) == -a.return_pct <= -b.return_pct

\* key(a) <= key(b) for key = (-return_pct, -composite_score, consistency)
KeyLeq(a, b) ==
    \/ -a.return_pct < -b.return_pct
    \/ /\ -a.return_pct = -b.return_pct
       /\ \/ -a.composite_score < -b.composite_score
          \/ /\ -a.composite_score = -b.composite_score
             /\ a.consistency <= b.consistency

\* list.sort is stable: an entry is placed after the entries already there
\* whose key is not greater than its own.
RECURSIVE SortEntries(_)
SortEntries(rs) ==
    IF rs = << >> THEN << >>
    ELSE LET front == SortEntries(SubSeq(rs, 1, Len(rs) - 1))
             last == rs[Len(rs)]
             n == Cardinality({k \in 1..Len(front) : KeyLeq(front[k], last)})
         IN  SubSeq(front, 1, n) \o << last >> \o SubSeq(front, n + 1, Len(front))

OptimizeAllStocks ==
    /\ pc = "optimizer"
    /\ opt_out' = SortEntries(SelectSeq(AllEntries(opt_in, 1), Kept))
    /\ pc' = "optimized"
    /\ UNCHANGED << data, i, current_price, positions, trades, total_invested,
                    total_sold_value, anomalies_detected, stop_loss_triggers,
                    trailing_stop_triggers, overbought_sells, stock_performance,
                    result, bar_lots, bar_first, bar_signal, bar_bought,
                    live_positions, live_ret, sizer_out, portfolio_vars, market,
                    detector_vars, opt_in, scheduler_vars, basic_vars >>

(***************************************************************************)
(* The live scheduler: Trader, LiveAnomalyStrategy.check_signals and the   *)
(* two loops of TradingScheduler.  One action is one turn of a loop, for   *)
(* one symbol.  Prices and dollar amounts are whole dollars; the shares of *)
(* a tracked position are counted in millionths of a share.  A call either *)
(* returns a value or raises: raised marks an exception on its way out.    *)
(***************************************************************************)
MaxTicks == 3               \* turns of the scheduler loops in a behaviour
SchedulerDollars == 1000    \* Config.POSITION_SIZE

Returns(value, submitted) ==
    [raised |-> FALSE, value |-> value, submitted |-> submitted]
Raises(submitted) == [raised |-> TRUE, value |-> FALSE, submitted |-> submitted]

\* Mutant: the exception is not caught.
Caught_Not(r) == r

\* try: ... except Exception: return False
Caught(r) == IF r.raised THEN Returns(FALSE, r.submitted) ELSE r

\* What the broker does during one call of the Trader: the latest quote is
\* there, missing or its request raises; ask is the quoted price; submit_order
\* returns or raises; the order submitted is filled at once or still pending
\* when the position is queried; get_all_positions returns or raises.
CalmBroker ==
    [quote |-> "ok", ask |-> 95, submit |-> "ok", fill |-> "filled", listing |-> "ok"]

TraderEnvs ==
    { CalmBroker,
      [CalmBroker EXCEPT !.fill = "pending"],
      [CalmBroker EXCEPT !.quote = "missing"],
      [CalmBroker EXCEPT !.quote = "raises"],
      [CalmBroker EXCEPT !.ask = 0],
      [CalmBroker EXCEPT !.ask = 2 * SchedulerDollars],
      [CalmBroker EXCEPT !.submit = "raises"],
      [CalmBroker EXCEPT !.listing = "raises"] }

\* Without a client no call reaches the broker.
EnvsOf(client) == IF client THEN TraderEnvs ELSE {CalmBroker}

NoBroker == [client |-> FALSE, positions |-> [s \in {} |-> 0], orders |-> 0]

\* _execute_alpaca_order inside its try.
AlpacaOrder(dollar_amount, env) ==
    IF env.quote = "raises" THEN Raises(FALSE)
    ELSE IF env.quote = "missing" THEN Returns(FALSE, FALSE)
    ELSE IF env.ask = 0 THEN Raises(FALSE)
    ELSE IF dollar_amount \div env.ask < 1 THEN Returns(FALSE, FALSE)
    ELSE IF env.submit = "raises" THEN Raises(FALSE)
    ELSE Returns(TRUE, TRUE)

buy_stock(client, dollar_amount, env) ==
    Caught(IF client THEN Caught(AlpacaOrder(dollar_amount, env))
           ELSE Returns(TRUE, FALSE))

\* _execute_alpaca_sell_order inside its try, called with shares = None.
AlpacaSellOrder(sym, held, env) ==
    IF env.listing = "raises" THEN Raises(FALSE)
    ELSE IF sym \notin DOMAIN held THEN Returns(FALSE, FALSE)
    ELSE IF held[sym].qty < 1 THEN Returns(FALSE, FALSE)
    ELSE IF env.quote = "raises" THEN Raises(FALSE)
    ELSE IF env.quote = "missing" THEN Returns(FALSE, FALSE)
    ELSE IF env.submit = "raises" THEN Raises(FALSE)
    ELSE Returns(TRUE, TRUE)

sell_stock(client, sym, held, env) ==
    Caught(IF client THEN Caught(AlpacaSellOrder(sym, held, env))
           ELSE Returns(TRUE, FALSE))

NoPosition == [found |-> FALSE, shares |-> 0, avg_entry_price |-> 0]

\* Trader.get_position
get_position(client, sym, held, env) ==
    IF client /\ env.listing = "ok" /\ sym \in DOMAIN held
    THEN [found |-> TRUE, shares |-> held[sym].qty * MoneyUnit,
          avg_entry_price |-> held[sym].avg_entry_price]
    ELSE NoPosition

\* The broker's positions once a submitted buy of quantity shares is filled.
Bought(held, sym, quantity, price) ==
    IF sym \in DOMAIN held
    THEN [held EXCEPT ![sym] =
            [qty |-> @.qty + quantity,
             avg_entry_price |->
                 (@.qty * @.avg_entry_price + quantity * price) \div (@.qty + quantity)]]
    ELSE (sym :> [qty |-> quantity, avg_entry_price |-> price]) @@ held

\* The broker after a call of the Trader that returned r.
AfterOrder(b, side, sym, dollar_amount, env, r) ==
    [ b EXCEPT
        !.orders = IF r.submitted THEN @ + 1 ELSE @,
        !.positions =
            IF r.submitted /\ env.fill = "filled"
            THEN (IF side = "buy"
                  THEN Bought(@, sym, dollar_amount \div env.ask, env.ask)
                  ELSE [t \in DOMAIN @ \ {sym} |-> @[t]])
            ELSE @ ]

\* LiveAnomalyStrategy.update_performance
live_update_performance(perf, profit) ==
    LET p == IF perf.present THEN perf
             ELSE [present |-> TRUE, wins |-> 0, losses |-> 0, total_profit |-> 0]
    IN  IF profit > 0 THEN [p EXCEPT !.wins = @ + 1]
        ELSE [p EXCEPT !.losses = @ + 1]

\* What detect_anomalies returns when the detector reads the given tags at
\* the given close.
SchedulerReadings ==
    { QuietReading,
      "rsi_oversold" :> 5,
      "oversold" :> 25,
      "gap_down" :> 11 @@ "rsi_overbought" :> 5,
      "extreme_drop" :> 20 @@ "gap_up" :> 15,
      "overbought" :> 25 @@ "volume_spike" :> 10 }

LiveInfo(reading, price) ==
    [ is_anomaly |-> Cardinality(DOMAIN reading) > 0,
      signal_type |-> LiveSignalType(DOMAIN reading),
      severity |-> SumOver(reading, DOMAIN reading),
      anomaly_types |-> DOMAIN reading,
      current_price |-> price ]

NoInfo == LiveInfo(QuietReading, 0)

Hold == [action |-> "HOLD", reason |-> "None", current_price |-> 0]

\* check_signals from "Check for new anomalies" on.
Decide(info, has_position) ==
    IF ~info.is_anomaly THEN Hold
    ELSE IF info.severity < min_severity THEN Hold
    ELSE IF info.signal_type = "BUY" /\ has_position THEN Hold
    ELSE IF /\ info.signal_type \in {"SELL", "MIXED"}
            /\ has_position
            /\ info.severity >= StrongSeverity
    THEN [action |-> "SELL", reason |-> "OVERBOUGHT",
          current_price |-> info.current_price]
    ELSE IF info.signal_type \in {"BUY", "MIXED"}
    THEN [action |-> "BUY", reason |-> "anomaly",
          current_price |-> info.current_price]
    ELSE Hold

\* The day's data check_signals or _monitor_positions fetches for a symbol.
NoClose == [ok |-> FALSE, price |-> 0]
SchedulerPrices == {90, 95, 100}
Closes == {NoClose} \cup {[ok |-> TRUE, price |-> p] : p \in SchedulerPrices}

\* Mutant: a position is tested against its stop-loss price alone.
LiveStops_StopLossOnly(pos, price) ==
    IF price * 100 <= pos.stop_loss_price
    THEN [should_sell |-> TRUE, reason |-> "STOP_LOSS"]
    ELSE [should_sell |-> FALSE, reason |-> "None"]

\* update_position on a tracked symbol, after the highest price is updated.
LiveStops(pos, price) == LiveCheck(pos, price)

\* check_signals: the tracker it leaves, whether it came to consult the
\* detector, and the dictionary it returns.
check_signals(tracked, sym, close, info) ==
    LET has_position == sym \in DOMAIN tracked
        marked == IF has_position /\ close.ok
                  THEN [tracked EXCEPT ![sym] = LiveMark(@, close.price)]
                  ELSE tracked
        stop == IF has_position /\ close.ok
                THEN LiveStops(marked[sym], close.price)
                ELSE [should_sell |-> FALSE, reason |-> "None"]
    IN  IF stop.should_sell
        THEN [ tracker |-> marked, consulted |-> FALSE,
               signal |-> [action |-> "SELL", reason |-> stop.reason,
                           current_price |-> close.price] ]
        ELSE [ tracker |-> marked, consulted |-> TRUE,
               signal |-> Decide(info, has_position) ]

NoOrder == [side |-> "none", env |-> CalmBroker, result |-> Returns(FALSE, FALSE)]

NoTurn ==
    [ op |-> "none", symbol |-> "AAPL", close |-> NoClose, consulted |-> FALSE,
      info |-> NoInfo, signal |-> Hold, order |-> NoOrder,
      position |-> NoPosition ]

\* Mutant: the sell is booked whether or not the order went through.
SellSucceeded_Always(r) == TRUE

\* "if success:" after self.trader.sell_stock(symbol)
SellSucceeded(r) == r.value

\* The tracker and the record after "success = self.trader.sell_stock(symbol)".
SettleSell(tracked, perf, sym, r, price) ==
    IF SellSucceeded(r)
    THEN LET profit == (price - tracked[sym].entry_price) * tracked[sym].shares
         IN  [ tracker |-> remove_position(tracked, sym),
               perf |-> [perf EXCEPT ![sym] = live_update_performance(@, profit)] ]
    ELSE [tracker |-> tracked, perf |-> perf]

\* The tracker after "success = self.trader.buy_stock(symbol, position_size)".
SettleBuy(tracked, sym, r, position) ==
    IF r.value /\ position.found
    THEN add_position(remove_position(tracked, sym), sym, position.shares,
                      position.avg_entry_price)
    ELSE tracked

\* One turn of the loop of _execute_trading_logic.
ExecuteTradingLogic ==
    /\ pc = "scheduler"
    /\ ticks < MaxTicks
    /\ ticks' = ticks + 1
    /\ \E sym \in Symbols, price \in SchedulerPrices,
          reading \in SchedulerReadings :
       \E got \in (IF sym \in DOMAIN live_positions THEN BOOLEAN ELSE {FALSE}) :
         LET has_position == sym \in DOMAIN live_positions
             close == IF got THEN [ok |-> TRUE, price |-> price] ELSE NoClose
             checked == check_signals(live_positions, sym, close,
                                      LiveInfo(reading, price))
             signal == checked.signal
             turn == [ NoTurn EXCEPT
                         !.op = "execute", !.symbol = sym, !.close = close,
                         !.consulted = checked.consulted,
                         !.info = IF checked.consulted
                                  THEN LiveInfo(reading, price) ELSE NoInfo,
                         !.signal = signal ]
         IN  IF signal.action = "BUY"
             THEN \E env \in EnvsOf(broker.client) :
                  LET position_size ==
                          LiveGetPositionSize(stock_performance[sym],
                                              SchedulerDollars)
                      r == buy_stock(broker.client, position_size, env)
                      b == AfterOrder(broker, "buy", sym, position_size, env, r)
                      position == IF r.value
                                  THEN get_position(b.client, sym, b.positions, env)
                                  ELSE NoPosition
                  IN  /\ broker' = b
                      /\ pc' = IF r.raised THEN "crashed" ELSE pc
                      /\ live_positions' =
                            IF r.raised THEN checked.tracker
                            ELSE SettleBuy(checked.tracker, sym, r, position)
                      /\ stock_performance' = stock_performance
                      /\ sched' = [ turn EXCEPT
                                      !.order = [side |-> "buy", env |-> env,
                                                 result |-> r],
                                      !.position = position ]
             ELSE IF signal.action = "SELL" /\ sym \in DOMAIN checked.tracker
             THEN \E env \in EnvsOf(broker.client) :
                  LET r == sell_stock(broker.client, sym, broker.positions, env)
                      settled == IF r.raised
                                 THEN [tracker |-> checked.tracker,
                                       perf |-> stock_performance]
                                 ELSE SettleSell(checked.tracker, stock_performance,
                                                 sym, r, signal.current_price)
                  IN  /\ broker' = AfterOrder(broker, "sell", sym, 0, env, r)
                      /\ pc' = IF r.raised THEN "crashed" ELSE pc
                      /\ live_positions' = settled.tracker
                      /\ stock_performance' = settled.perf
                      /\ sched' = [ turn EXCEPT
                                      !.order = [side |-> "sell", env |-> env,
                                                 result |-> r] ]
             ELSE /\ broker' = broker
                  /\ pc' = pc
                  /\ live_positions' = checked.tracker
                  /\ stock_performance' = stock_performance
                  /\ sched' = turn
    /\ live_ret' = live_ret
    /\ UNCHANGED << data, i, current_price, positions, trades, total_invested,
                    total_sold_value, anomalies_detected, stop_loss_triggers,
                    trailing_stop_triggers, overbought_sells,
                    result, bar_lots, bar_first, bar_signal, bar_bought,
                    sizer_out, portfolio_vars, market, detector_vars,
                    optimizer_vars, basic_vars >>

\* One turn of the loop of _monitor_positions: an exception raised in the
\* turn is caught and logged by the turn itself.
MonitorPositions ==
    /\ pc = "scheduler"
    /\ ticks < MaxTicks
    /\ ticks' = ticks + 1
    /\ \E sym \in DOMAIN live_positions, close \in Closes :
         LET marked == IF close.ok
                       THEN [live_positions EXCEPT ![sym] = LiveMark(@, close.price)]
                       ELSE live_positions
             stop == IF close.ok THEN LiveStops(marked[sym], close.price)
                     ELSE [should_sell |-> FALSE, reason |-> "None"]
             turn == [ NoTurn EXCEPT
                         !.op = "monitor", !.symbol = sym, !.close = close,
                         !.signal = IF stop.should_sell
                                    THEN [action |-> "SELL", reason |-> stop.reason,
                                          current_price |-> close.price]
                                    ELSE Hold ]
         IN  IF stop.should_sell
             THEN \E env \in EnvsOf(broker.client) :
                  LET r == sell_stock(broker.client, sym, broker.positions, env)
                      settled == IF r.raised
                                 THEN [tracker |-> marked, perf |-> stock_performance]
                                 ELSE SettleSell(marked, stock_performance, sym, r,
                                                 close.price)
                  IN  /\ broker' = AfterOrder(broker, "sell", sym, 0, env, r)
                      /\ live_positions' = settled.tracker
                      /\ stock_performance' = settled.perf
                      /\ sched' = [ turn EXCEPT
                                      !.order = [side |-> "sell", env |-> env,
                                                 result |-> r] ]
             ELSE /\ broker' = broker
                  /\ live_positions' = marked
                  /\ stock_performance' = stock_performance
                  /\ sched' = turn
    /\ live_ret' = live_ret
    /\ UNCHANGED << pc, data, i, current_price, positions, trades, total_invested,
                    total_sold_value, anomalies_detected, stop_loss_triggers,
                    trailing_stop_triggers, overbought_sells,
                    result, bar_lots, bar_first, bar_signal, bar_bought,
                    sizer_out, portfolio_vars, market, detector_vars,
                    optimizer_vars, basic_vars >>

(***************************************************************************)
(* AnomalyTradingStrategy.backtest_strategy, the basic engine: one holding *)
(* per symbol, bought and sold position_size dollars at a time.            *)
(***************************************************************************)
BasicPrices == {98, 100, 104}
BasicReadings ==
    { QuietReading,
      "oversold" :> 25,
      "overbought" :> 25 @@ "volume_spike" :> 10,
      "extreme_drop" :> 20 @@ "gap_up" :> 15 }
BasicData ==
    { [len |-> MinBars - 1, closes |-> BasicPrices, quiet |-> 100,
       vary |-> MaxBars, readings |-> BasicReadings],
      [len |-> MinBars, closes |-> BasicPrices, quiet |-> 100,
       vary |-> MaxBars, readings |-> BasicReadings] }

BasicShortResult ==
    [ kind |-> "short", total_trades |-> 0, total_invested |-> 0,
      current_value |-> 0, profit_loss |-> 0, return_pct |-> 0,
      anomalies_detected |-> 0, trades |-> << >> ]

BasicRecord(date, type, price, shares, severity) ==
    [ date |-> date, type |-> type, price |-> price,
      shares |-> Round(shares, ShareQuantum),
      amount |-> Round(shares * price, MoneyQuantum),
      severity |-> severity ]

\* shares_to_sell = min(shares_owned, self.position_size / current_price)
SharesToSell(owned, price) ==
    IF owned <= base_position_size \div price THEN owned
    ELSE base_position_size \div price

\* The body of the bar loop for a bar with the given close and detection.
BasicStep(run, info, price, date) ==
    LET trades_on == info.is_anomaly /\ info.severity >= min_severity
        buys == trades_on /\ info.signal_type \in {"BUY", "MIXED"}
        shares_to_buy == base_position_size \div price
        bought ==
            IF buys
            THEN [ run EXCEPT
                     !.trades = Append(@, BasicRecord(date, "BUY", price,
                                                      shares_to_buy, info.severity)),
                     !.shares_owned = @ + shares_to_buy,
                     !.total_invested = @ + shares_to_buy * price ]
            ELSE run
        sells == /\ trades_on
                 /\ info.signal_type \in {"SELL", "MIXED"}
                 /\ bought.shares_owned > 0
        shares_to_sell == SharesToSell(bought.shares_owned, price)
    IN  IF sells /\ shares_to_sell > 0
        THEN [ bought EXCEPT
                 !.trades = Append(@, BasicRecord(date, "SELL", price,
                                                  shares_to_sell, info.severity)),
                 !.shares_owned = @ - shares_to_sell,
                 !.total_sold_value = @ + shares_to_sell * price ]
        ELSE bought

BasicStart ==
    /\ pc = "basic_start"
    /\ \E d \in BasicData :
         /\ data' = d
         /\ IF TooShort(d)
            THEN /\ result' = BasicShortResult
                 /\ pc' = "basic_done"
                 /\ i' = i
            ELSE /\ result' = result
                 /\ pc' = "basic_bar"
                 /\ i' = lookback_period
    /\ trades' = << >>
    /\ total_invested' = 0
    /\ total_sold_value' = 0
    /\ shares_owned' = 0
    /\ anomalies_detected' = 0
    /\ UNCHANGED << current_price, positions, stop_loss_triggers,
                    trailing_stop_triggers, overbought_sells, stock_performance,
                    bar_lots, bar_first, bar_signal, bar_bought, live_positions,
                    live_ret, sizer_out, portfolio_vars, market, detector_vars,
                    optimizer_vars, scheduler_vars >>

BasicBar ==
    /\ pc = "basic_bar"
    /\ \E price \in BarPrices(data, i), reading \in BarReadings(data, i) :
         LET anomaly_info == detect_all_anomalies(reading)
             run == BasicStep([ trades |-> trades,
                                shares_owned |-> shares_owned,
                                total_invested |-> total_invested,
                                total_sold_value |-> total_sold_value ],
                              anomaly_info, price, i)
         IN  /\ current_price' = price
             /\ bar_signal' = anomaly_info
             /\ bar_first' = Len(trades)
             /\ anomalies_detected' =
                    IF anomaly_info.is_anomaly THEN anomalies_detected + 1
                    ELSE anomalies_detected
             /\ trades' = run.trades
             /\ shares_owned' = run.shares_owned
             /\ total_invested' = run.total_invested
             /\ total_sold_value' = run.total_sold_value
    /\ i' = i + 1
    /\ pc' = IF i + 1 < data.len THEN "basic_bar" ELSE "basic_final"
    /\ UNCHANGED << data, positions, stop_loss_triggers, trailing_stop_triggers,
                    overbought_sells, stock_performance, result, bar_lots,
                    bar_bought, live_positions, live_ret, sizer_out,
                    portfolio_vars, market, detector_vars, optimizer_vars,
                    scheduler_vars >>

\* "Calculate final value": len(data) > 0 holds after the bar loop.
BasicFinal ==
    /\ pc = "basic_final"
    /\ LET final_price == current_price
           current_value == shares_owned * final_price
           total_value == current_value + total_sold_value
           profit_loss == total_value - total_invested
       IN  result' =
             [ kind |-> "basic",
               total_trades |-> Len(trades),
               buy_trades |-> CountType(trades, "BUY"),
               sell_trades |-> CountType(trades, "SELL"),
               total_invested |-> Round(total_invested, MoneyQuantum),
               total_sold_value |-> Round(total_sold_value, MoneyQuantum),
               shares_owned |-> Round(shares_owned, ShareQuantum),
               final_price |-> final_price,
               current_value |-> Round(current_value, MoneyQuantum),
               total_value |-> Round(total_value, MoneyQuantum),
               profit_loss |-> Round(profit_loss, MoneyQuantum),
               return_pct |-> IF total_invested > 0
                              THEN ReturnPct(profit_loss, total_invested)
                              ELSE 0,
               anomalies_detected |-> anomalies_detected,
               trades |-> trades ]
    /\ pc' = "basic_done"
    /\ UNCHANGED << data, i, current_price, positions, trades, total_invested,
                    total_sold_value, anomalies_detected, stop_loss_triggers,
                    trailing_stop_triggers, overbought_sells, stock_performance,
                    bar_lots, bar_first, bar_signal, bar_bought, live_positions,
                    live_ret, sizer_out, portfolio_vars, market, detector_vars,
                    optimizer_vars, scheduler_vars, basic_vars >>

(***************************************************************************)
(* The two position sizers applied to one performance record: pc = "sizer" *)
(* starts from a strategy whose record of the symbol holds any counts.     *)
(***************************************************************************)
SizerInputs ==
    {NoRecord} \cup
    { [present |-> TRUE, wins |-> w, losses |-> l, total_profit |-> 0] :
        w \in 0..MaxCount, l \in 0..MaxCount }

ApplySizers ==
    /\ pc = "sizer"
    /\ sizer_out' = [ backtest |-> get_position_size(stock_performance[symbol]),
                      live |-> LiveGetPositionSize(stock_performance[symbol],
                                                   base_position_size),
                      perf |-> stock_performance[symbol] ]
    /\ pc' = "sized"
    /\ UNCHANGED << data, i, current_price, positions, trades, total_invested,
                    total_sold_value, anomalies_detected, stop_loss_triggers,
                    trailing_stop_triggers, overbought_sells, stock_performance,
                    result, bar_lots, bar_first, bar_signal, bar_bought,
                    live_positions, live_ret, portfolio_vars, market, detector_vars, optimizer_vars, scheduler_vars, basic_vars >>

(***************************************************************************)
(* The specification.                                                      *)
(***************************************************************************)
Blank ==
    /\ data = NoData
    /\ i = 0
    /\ current_price = 0
    /\ positions = << >>
    /\ trades = << >>
    /\ total_invested = 0
    /\ total_sold_value = 0
    /\ anomalies_detected = 0
    /\ stop_loss_triggers = 0
    /\ trailing_stop_triggers = 0
    /\ overbought_sells = 0
    /\ result = NoResult
    /\ bar_lots = << >>
    /\ bar_first = 0
    /\ bar_signal = NoSignal
    /\ bar_bought = << >>
    /\ live_positions = << >>
    /\ live_ret = NoCall
    /\ results = NoResults
    /\ run_results = << >>
    /\ totals = ZeroTotals
    /\ summary = NoResult
    /\ market = [s \in Symbols |-> NoMarket]
    /\ det_out = NoDetection
    /\ opt_out = << >>
    /\ sched = NoTurn
    /\ ticks = 0
    /\ shares_owned = 0

NoPerformance == [s \in Symbols |-> NoRecord]

\* A strategy object as __init__ leaves it, then one of: a call of
\* backtest_strategy, a call of the detectors on a bar series, a call of
\* optimize_all_stocks, a scheduler started with or without an API client,
\* a call of the basic engine, a call of run_backtest, calls of the live
\* tracker, or a call of the sizers on a record holding any counts.
Init ==
    /\ Blank
    /\ \/ /\ pc = "start"
          /\ stock_performance = NoPerformance
          /\ stocks = << >> /\ stock_idx = 0 /\ symbol = "AAPL"
       \/ /\ pc = "detector"
          /\ stock_performance = NoPerformance
          /\ stocks = << >> /\ stock_idx = 0 /\ symbol = "AAPL"
       \/ /\ pc = "optimizer"
          /\ stock_performance = NoPerformance
          /\ stocks = << >> /\ stock_idx = 0 /\ symbol = "AAPL"
       \/ /\ pc = "scheduler"
          /\ stock_performance = NoPerformance
          /\ stocks = << >> /\ stock_idx = 0 /\ symbol = "AAPL"
       \/ /\ pc = "basic_start"
          /\ stock_performance = NoPerformance
          /\ stocks = << >> /\ stock_idx = 0 /\ symbol = "AAPL"
       \/ /\ pc = "start"
          /\ stock_performance = NoPerformance
          /\ stocks \in StockLists /\ stock_idx = 1
          /\ symbol = Normalize(stocks[1])
       \/ /\ pc = "live"
          /\ stock_performance = NoPerformance
          /\ stocks = << >> /\ stock_idx = 0 /\ symbol = "AAPL"
       \/ /\ pc = "sizer"
          /\ \E r \in SizerInputs :
                stock_performance = [NoPerformance EXCEPT !["AAPL"] = r]
          /\ stocks = << >> /\ stock_idx = 0 /\ symbol = "AAPL"
    /\ sizer_out = [backtest |-> 0, live |-> 0, perf |-> NoRecord]
    /\ IF pc = "detector" THEN det_in \in DetectorInputs ELSE det_in = NoSeries
    /\ IF pc = "optimizer" THEN opt_in \in OptimizerInputs ELSE opt_in = << >>
    /\ IF pc = "scheduler"
       THEN \E client \in BOOLEAN : broker = [NoBroker EXCEPT !.client = client]
       ELSE broker = NoBroker

Next ==
    \/ Start
    \/ ExitPhase
    \/ SignalPhase
    \/ Finalize
    \/ Collect
    \/ AddPosition
    \/ UpdatePosition
    \/ RemovePosition
    \/ ApplySizers
    \/ Detect
    \/ OptimizeAllStocks
    \/ ExecuteTradingLogic
    \/ MonitorPositions
    \/ BasicStart
    \/ BasicBar
    \/ BasicFinal

Spec == Init /\ [][Next]_vars

(***************************************************************************)
(* Vocabulary of the claims.                                               *)
(***************************************************************************)
InBacktest == pc \in {"exits", "signal", "final", "done"}

\* The records the current bar has appended to the trade log.
BarTrades == SubSeq(trades, bar_first + 1, Len(trades))

\* Lot k of bar_lots once the exit phase has marked it with the bar's close.
Marked(k) == update_trailing_stop(bar_lots[k], current_price)

HitsStopLoss(k) == current_price * 100 <= Marked(k).stop_loss_price
HitsTrailing(k) == current_price * 100 <= Marked(k).trailing_stop_price
Triggered(k) == HitsStopLoss(k) \/ HitsTrailing(k)

\* The place in the trade log of the exit record of lot k of bar_lots.
ExitRecord(k) ==
    trades[bar_first + Cardinality({j \in 1..k : Triggered(j)})]

RECURSIVE SumRecords(_, _, _)
SumRecords(ts, k, type) ==
    IF k > Len(ts) THEN 0
    ELSE (IF ts[k].type = type THEN ts[k].shares ELSE 0)
         + SumRecords(ts, k + 1, type)

(***************************************************************************)
(* C1: every result with total_invested > 0 has total_value = the value of *)
(* the lots still open at the final close + the proceeds realized during   *)
(* the run, each lot counted once, and profit_loss = total_value -         *)
(* total_invested.  Stated on the step that builds the result: before it,  *)
(* total_sold_value is the realized proceeds of the run.                   *)
(***************************************************************************)
C1_TotalValueCountsEachLotOnce ==
    [][ (pc = "final" /\ result'.kind = "full") =>
            LET unrealized == SumShares(positions, 1) * current_price
                total_value == unrealized + total_sold_value
            IN  /\ result'.total_value = Round(total_value, MoneyQuantum)
                /\ result'.profit_loss =
                       Round(total_value - total_invested, MoneyQuantum) ]_vars

(***************************************************************************)
(* C2: after every bar, the shares of the BUY records minus the shares of  *)
(* the SELL records equal the shares of the lots that are open.            *)
(***************************************************************************)
C2_LogBalancesOpenShares ==
    pc \in {"exits", "final"} =>
        SumRecords(trades, 1, "BUY") - SumRecords(trades, 1, "SELL")
            = SumShares(positions, 1)

(***************************************************************************)
(* C3: a lot whose close is at or below both its stop-loss price and its   *)
(* trailing-stop price is closed with reason STOP_LOSS, in the exit loop   *)
(* of the backtest and in LivePositionTracker.update_position.             *)
(***************************************************************************)
C3_StopLossHasPriority ==
    /\ pc = "signal" =>
         \A k \in 1..Len(bar_lots) :
             (HitsStopLoss(k) /\ HitsTrailing(k)) =>
                 /\ ExitRecord(k).type = "SELL"
                 /\ ExitRecord(k).reason = "STOP_LOSS"
    /\ (pc = "live" /\ live_ret.op = "update_position" /\ live_ret.tracked) =>
         LET pos == live_positions[live_ret.symbol]
         IN  (/\ live_ret.price * 100 <= pos.stop_loss_price
              /\ live_ret.price * 100 <= pos.trailing_stop_price)
                 => (live_ret.should_sell /\ live_ret.reason = "STOP_LOSS")

\* A lot whose trailing stop has risen above its stop-loss price is hit on
\* both levels in the exit loop.
C3_Witness ==
    /\ pc = "signal"
    /\ \E k \in 1..Len(bar_lots) :
         /\ HitsStopLoss(k) /\ HitsTrailing(k)
         /\ Marked(k).trailing_stop_price > Marked(k).stop_loss_price
         /\ ExitRecord(k).reason = "STOP_LOSS"

\* A lot of ps' continues a lot of ps when both were opened on the same bar
\* (a bar opens at most one lot).
SameLot(a, b) == a.entry_date = b.entry_date

(***************************************************************************)
(* C4: while a lot is open its trailing_stop_price never decreases,        *)
(* whatever the marks and partial closes it goes through.                  *)
(***************************************************************************)
C4_TrailingStopNeverLowers ==
    [][ \A k \in 1..Len(positions) : \A m \in 1..Len(positions') :
            SameLot(positions[k], positions'[m]) =>
                positions'[m].trailing_stop_price
                    >= positions[k].trailing_stop_price ]_vars

\* A lot stays open on a close below its highest price, its trailing stop
\* having been raised above its first level.
C4_Witness ==
    /\ pc = "signal"
    /\ \E k \in 1..Len(positions) :
         /\ current_price < positions[k].highest_price
         /\ positions[k].trailing_stop_price
                > positions[k].entry_price * (100 - TrailingStopPct)

(***************************************************************************)
(* C5: stop_loss_price and entry_price of a lot keep the values set when   *)
(* the lot was opened, stop_loss_price = entry_price * (1 - stop_loss_pct),*)
(* through marks, stop checks and OVERBOUGHT partial closes.               *)
(***************************************************************************)
C5_StopLossPriceIsFixed ==
    [][ /\ \A k \in 1..Len(positions) : \A m \in 1..Len(positions') :
              SameLot(positions[k], positions'[m]) =>
                  /\ positions'[m].stop_loss_price = positions[k].stop_loss_price
                  /\ positions'[m].entry_price = positions[k].entry_price
        /\ \A m \in 1..Len(positions') :
              positions'[m].stop_loss_price
                  = positions'[m].entry_price * (100 - StopLossPct) ]_vars

\* An open lot that has been marked to a new high and partially closed.
C5_Witness ==
    /\ InBacktest
    /\ \E k \in 1..Len(positions) :
         /\ positions[k].highest_price > positions[k].entry_price
         /\ positions[k].shares
                < positions[k].position_size \div positions[k].entry_price

StopRecord(r) == r.type = "SELL" /\ r.reason \in {"STOP_LOSS", "TRAILING_STOP"}
BuyRec(r) == r.type = "BUY"
OverboughtRecord(r) == r.type = "SELL" /\ r.reason = "OVERBOUGHT"

NumTriggered == Cardinality({k \in 1..Len(bar_lots) : Triggered(k)})

\* The records of the current bar that follow its stop exits.
AfterExits == SubSeq(trades, bar_first + NumTriggered + 1, Len(trades))

(***************************************************************************)
(* C6: the records of a bar are, in this order, the stop exits of the lots *)
(* open when the bar began, at most one BUY, at most one OVERBOUGHT SELL;  *)
(* a lot is therefore never closed by a stop on the bar that opened it;    *)
(* bars are processed in increasing order from lookback_period to the end. *)
(***************************************************************************)
C6_BarOrder ==
    (pc \in {"signal", "exits", "final"} /\ i >= lookback_period) =>
        LET bar == IF pc = "signal" THEN i ELSE i - 1
        IN  /\ lookback_period <= i /\ i <= data.len
            /\ (pc = "final") = (i = data.len)
            /\ \A k \in 1..Len(trades) :
                   /\ trades[k].date <= bar
                   /\ k > bar_first <=> trades[k].date = bar
                   /\ k > 1 => trades[k - 1].date <= trades[k].date
            /\ (bar >= lookback_period) =>
                   /\ \A k \in 1..Len(bar_lots) : bar_lots[k].entry_date < bar
                   /\ Len(trades) >= bar_first + NumTriggered
                   /\ \A k \in (bar_first + 1)..(bar_first + NumTriggered) :
                          StopRecord(trades[k])
                   /\ \/ AfterExits = << >>
                      \/ Len(AfterExits) = 1
                            /\ (BuyRec(AfterExits[1]) \/ OverboughtRecord(AfterExits[1]))
                      \/ Len(AfterExits) = 2
                            /\ BuyRec(AfterExits[1])
                            /\ OverboughtRecord(AfterExits[2])
                   /\ pc = "signal" => AfterExits = << >>

\* One bar logs a stop exit, then a BUY, then an OVERBOUGHT SELL.
C6_Witness ==
    /\ pc \in {"exits", "final"}
    /\ NumTriggered >= 1
    /\ Len(AfterExits) = 2

(***************************************************************************)
(* C7: once the exit phase of a bar has run, no lot that was open when the *)
(* bar began and whose close is at or below its stop-loss or trailing-stop *)
(* price is still open; each such lot has exactly one SELL record, with    *)
(* the whole share count of the lot (as the log keeps shares, to four      *)
(* decimals) at the bar's close; the other lots stay open.                 *)
(***************************************************************************)
C7_TriggeredLotsAreClosed ==
    pc = "signal" =>
        /\ Len(trades) = bar_first + NumTriggered
        /\ Len(positions) = Len(bar_lots) - NumTriggered
        /\ \A k \in 1..Len(bar_lots) :
             IF Triggered(k)
             THEN /\ \A m \in 1..Len(positions) : ~SameLot(positions[m], bar_lots[k])
                  /\ StopRecord(ExitRecord(k))
                  /\ ExitRecord(k).shares = Round(bar_lots[k].shares, ShareQuantum)
                  /\ ExitRecord(k).amount
                         = Round(bar_lots[k].shares * current_price, MoneyQuantum)
                  /\ ExitRecord(k).price = current_price
                  /\ ExitRecord(k).entry_price = bar_lots[k].entry_price
                  /\ ExitRecord(k).date = i
             ELSE \E m \in 1..Len(positions) : positions[m] = Marked(k)

\* Two lots are closed by the exit phase of the same bar, one by each rule.
C7_Witness ==
    /\ pc = "signal"
    /\ NumTriggered >= 2
    /\ \E k \in 1..Len(bar_lots) : ExitRecord(k).reason = "STOP_LOSS"
    /\ \E k \in 1..Len(bar_lots) : ExitRecord(k).reason = "TRAILING_STOP"

\* The records a step appends to the trade log.
Appended == SubSeq(trades', Len(trades) + 1, Len(trades'))

NumAppended(Kind(_)) ==
    Cardinality({k \in 1..Len(Appended) : Kind(Appended[k])})

(***************************************************************************)
(* C8: a bar opens exactly one lot and logs one BUY exactly when its       *)
(* signal is an anomaly of severity >= min_severity whose tags include a   *)
(* BUY tag (direction BUY or MIXED); the lot has position_size / close     *)
(* shares at entry price close, position_size being the sizer's output at  *)
(* that moment.  Otherwise, and in particular for tags without direction,  *)
(* the bar opens no lot.                                                   *)
(***************************************************************************)
C8_BuyOnlyOnBuySignal ==
    [][ pc = "signal" =>
          LET info == bar_signal'
              bought == bar_bought'
              buys == /\ info.anomaly_types # {}
                      /\ info.severity >= min_severity
                      /\ info.anomaly_types \cap
                           {"oversold", "extreme_drop", "gap_down", "rsi_oversold"} # {}
              size == get_position_size(stock_performance[symbol])
          IN  IF buys
              THEN /\ info.signal_type \in {"BUY", "MIXED"}
                   /\ NumAppended(BuyRec) = 1
                   /\ Len(bought) = Len(positions) + 1
                   /\ SubSeq(bought, 1, Len(positions)) = positions
                   /\ bought[Len(bought)].shares = size \div current_price
                   /\ bought[Len(bought)].entry_price = current_price
                   /\ bought[Len(bought)].entry_date = i
                   /\ bought[Len(bought)].position_size = size
                   /\ total_invested'
                          = total_invested + (size \div current_price) * current_price
              ELSE /\ info.signal_type \notin {"BUY", "MIXED"}
                      \/ info.severity < min_severity
                   /\ NumAppended(BuyRec) = 0
                   /\ bought = positions
                   /\ total_invested' = total_invested ]_vars

\* A BUY sized by the record of the symbol: after a losing close the lot is
\* bought with 0.6 of the base size.
C8_Witness ==
    /\ pc \in {"exits", "final"}
    /\ Len(bar_bought) > 0
    /\ bar_bought[Len(bar_bought)].entry_date = i - 1
    /\ bar_bought[Len(bar_bought)].position_size = (base_position_size * 6) \div 10

\* One step of the bar's signal handling makes a partial close that obeys
\* the trigger, the choice of the lot and the amount sold; After(bought, k,
\* left) is the open set the claim expects once lot k keeps `left` shares.
PartialCloseStep(After(_, _, _)) ==
    pc = "signal" =>
        LET info == bar_signal'
            bought == bar_bought'
        IN  /\ NumAppended(OverboughtRecord) <= 1
            /\ NumAppended(StopRecord) = 0
            /\ IF NumAppended(OverboughtRecord) = 1
               THEN /\ info.anomaly_types \cap
                         {"overbought", "extreme_rise", "gap_up", "rsi_overbought"} # {}
                    /\ info.signal_type \in {"SELL", "MIXED"}
                    /\ info.severity >= StrongSeverity
                    /\ Len(bought) > 0
                    /\ OverboughtRecord(Appended[Len(Appended)])
                    /\ \E k \in 1..Len(bought) :
                         LET sold == (bought[k].shares * 25) \div 100
                             left == bought[k].shares - sold
                         IN  /\ \A j \in 1..Len(bought) :
                                   bought[k].shares <= bought[j].shares
                             /\ total_sold_value'
                                   = total_sold_value + sold * current_price
                             /\ Appended[Len(Appended)].shares
                                   = Round(sold, ShareQuantum)
                             /\ Appended[Len(Appended)].price = current_price
                             /\ positions' = After(bought, k, left)
               ELSE /\ positions' = bought
                    /\ total_sold_value' = total_sold_value

KeepsReducedLot(bought, k, left) == [bought EXCEPT ![k].shares = left]

DropsDustLot(bought, k, left) ==
    IF left < DustShares
    THEN SubSeq(bought, 1, k - 1) \o SubSeq(bought, k + 1, Len(bought))
    ELSE [bought EXCEPT ![k].shares = left]

C10_SizerBands ==
    pc = "sized" =>
        LET w == stock_performance[symbol].wins
            l == stock_performance[symbol].losses
            tenths == IF ~stock_performance[symbol].present \/ w + l = 0 THEN 10
                      ELSE IF 100 * w >= 60 * (w + l) THEN 12
                      ELSE IF 100 * w >= 50 * (w + l) THEN 10
                      ELSE IF 100 * w >= 40 * (w + l) THEN 8
                      ELSE 6
        IN  /\ sizer_out.backtest * 10 = BaseDollars * MoneyUnit * tenths
            /\ sizer_out.live = sizer_out.backtest
            /\ sizer_out.perf = stock_performance[symbol]

\* Six wins and four losses: a win rate of exactly 0.6 is sized 1.2.
C10_Witness ==
    /\ pc = "sized"
    /\ stock_performance[symbol].present
    /\ stock_performance[symbol].wins = 6
    /\ stock_performance[symbol].losses = 4
    /\ sizer_out.backtest = 12 * MoneyUnit

\* A call of backtest_strategy is under way or has just returned.
InRun == pc \in {"exits", "signal", "final", "done"}

\* The calls of backtest_strategy this object has completed for the symbol of
\* the current call.
PriorRuns ==
    Cardinality({j \in 1..(stock_idx - 1) : Normalize(stocks[j]) = symbol})

(***************************************************************************)
(* C11: throughout the first run of a symbol on a strategy object, and     *)
(* once the end-of-series valuation is done, wins + losses of the symbol's *)
(* record is the number of SELL records of the run, and neither counter    *)
(* ever decreases.                                                         *)
(***************************************************************************)
C11_RecordCountsRealizedCloses ==
    [][ /\ stock_performance'[symbol'].wins >= stock_performance[symbol'].wins
        /\ stock_performance'[symbol'].losses >= stock_performance[symbol'].losses
        /\ (InRun' /\ PriorRuns' = 0) =>
              stock_performance'[symbol'].wins + stock_performance'[symbol'].losses
                  = CountType(trades', "SELL") ]_vars

(***************************************************************************)
(* C12: a second call of backtest_strategy for a symbol on the same        *)
(* strategy object, reading the same bar series, returns the result of     *)
(* the first call: the same trade log (BUY share counts and position sizes *)
(* included) and the same figures.                                         *)
(***************************************************************************)
C12_SecondRunRepeatsFirst ==
    (pc = "done" /\ PriorRuns > 0) => result = results[symbol]

(***************************************************************************)
(* A call of backtest_strategy taken on its own: the result and the record *)
(* it leaves, computed from the series of one symbol and the record of     *)
(* that symbol alone.                                                      *)
(***************************************************************************)
FreshRun(perf) ==
    [ positions |-> << >>, trades |-> << >>, total_invested |-> 0,
      total_sold_value |-> 0, anomalies_detected |-> 0,
      stop_loss_triggers |-> 0, trailing_stop_triggers |-> 0,
      overbought_sells |-> 0, perf |-> perf ]

OneBar(run, price, reading, date) ==
    LET acc == ExitLoop(run.positions, 1, price, date,
                   [ kept |-> << >>,
                     trades |-> run.trades,
                     total_sold_value |-> run.total_sold_value,
                     stop_loss_triggers |-> run.stop_loss_triggers,
                     trailing_stop_triggers |-> run.trailing_stop_triggers,
                     perf |-> run.perf ])
        info == detect_all_anomalies(reading)
        st == SignalStep([ positions |-> acc.kept,
                           trades |-> acc.trades,
                           total_invested |-> run.total_invested,
                           total_sold_value |-> acc.total_sold_value,
                           overbought_sells |-> run.overbought_sells,
                           perf |-> acc.perf ],
                         info, price, date)
    IN  [ positions |-> st.positions, trades |-> st.trades,
          total_invested |-> st.total_invested,
          total_sold_value |-> st.total_sold_value,
          anomalies_detected |->
              run.anomalies_detected + (IF info.is_anomaly THEN 1 ELSE 0),
          stop_loss_triggers |-> acc.stop_loss_triggers,
          trailing_stop_triggers |-> acc.trailing_stop_triggers,
          overbought_sells |-> st.overbought_sells,
          perf |-> st.perf ]

RECURSIVE AllBars(_, _, _, _)
AllBars(run, closes, readings, n) ==
    IF n > Len(closes) THEN run
    ELSE AllBars(OneBar(run, closes[n], readings[n], lookback_period + n - 1),
                 closes, readings, n + 1)

\* m is what the data source holds for the symbol.
RunAlone(m, perf) ==
    IF TooShort(fetch_stock_data(m.raw))
    THEN [result |-> ShortResult, perf |-> perf]
    ELSE LET end == EndOfSeries(AllBars(FreshRun(perf), m.closes, m.readings, 1),
                                m.closes[Len(m.closes)])
         IN  [result |-> end.result, perf |-> end.perf]

\* The n-th call for a symbol on one strategy object.
RECURSIVE NthRun(_, _)
NthRun(m, n) ==
    RunAlone(m, IF n = 1 THEN NoRecord ELSE NthRun(m, n - 1).perf)

\* The calls completed for symbol s once the call in hand has returned.
RunsOf(s) ==
    Cardinality({j \in 1..Len(stocks) :
                    j <= stock_idx /\ Normalize(stocks[j]) = s})

\* The totals of the calls of the list, taken symbol by symbol in a fixed
\* order whatever the order of the list.
RECURSIVE TotalsOfRuns(_, _, _)
TotalsOfRuns(t, s, n) ==
    IF n > RunsOf(s) THEN t
    ELSE TotalsOfRuns(AddResult(t, NthRun(market[s], n).result), s, n + 1)

TotalsInFixedOrder ==
    TotalsOfRuns(TotalsOfRuns(ZeroTotals, "AAPL", 1), "MSFT", 1)

(***************************************************************************)
(* C13: in run_backtest, whatever the order of the list, the result filed  *)
(* for a symbol and the record the symbol is left with are those of its    *)
(* calls taken on their own, from its own series and the configuration;    *)
(* a symbol not yet processed has no record; and the summary is the one    *)
(* those results give in any order.                                        *)
(***************************************************************************)
C13_SymbolsAreIndependent ==
    (InPortfolio /\ pc \in {"done", "summary"}) =>
        /\ \A s \in Symbols :
              IF RunsOf(s) = 0
              THEN /\ stock_performance[s] = NoRecord
                   /\ results[s] = NoResult
              ELSE LET alone == NthRun(market[s], RunsOf(s))
                       latest == IF pc = "done" /\ s = symbol THEN result
                                 ELSE results[s]
                   IN  /\ latest = alone.result
                       /\ stock_performance[s] = alone.perf
        /\ pc = "summary" =>
              summary = Summary(TotalsInFixedOrder, results)

\* Both stocks of a list traded, MSFT first, with different results, and
\* each left a record.
C13_Witness ==
    /\ pc = "summary"
    /\ stocks = << "MSFT", "AAPL" >>
    /\ results["AAPL"].kind = "full"
    /\ results["MSFT"].kind = "full"
    /\ results["AAPL"].total_invested # results["MSFT"].total_invested
    /\ stock_performance["AAPL"].losses > 0
    /\ stock_performance["MSFT"].wins > 0

(***************************************************************************)
(* C14: a call whose series is unavailable (the fetch raised or came back  *)
(* empty) or has fewer than 30 bars returns at once a result with          *)
(* total_trades = 0, total_invested = 0, return_pct = 0 and no trades, and *)
(* leaves the performance records as they were; run_backtest files that    *)
(* result and goes on to the next stock of the list, so that every stock   *)
(* of the list has a result when the summary is built.                     *)
(***************************************************************************)
C14_ShortSeriesIsSkipped ==
    [][ /\ (pc = "start" /\ data'.len < 30) =>
              /\ pc' = "done"
              /\ result'.total_trades = 0
              /\ result'.total_invested = 0
              /\ result'.return_pct = 0
              /\ result'.trades = << >>
              /\ stock_performance' = stock_performance
        /\ (pc = "done" /\ InPortfolio /\ data.len < 30) =>
              /\ results'[symbol] = result
              /\ Len(run_results') = stock_idx
              /\ IF stock_idx < Len(stocks)
                 THEN /\ pc' = "start"
                      /\ symbol' = Normalize(stocks[stock_idx + 1])
                 ELSE /\ pc' = "summary"
                      /\ \A j \in 1..Len(stocks) :
                            results'[Normalize(stocks[j])].kind # "none" ]_vars

\* The fetch of the first stock of the list raised; run_backtest went on,
\* traded the second stock and came to its summary with a result for both.
C14_Witness ==
    /\ pc = "summary"
    /\ market[Normalize(stocks[1])].raw.kind = "raised"
    /\ results[Normalize(stocks[1])].kind = "short"
    /\ results[Normalize(stocks[2])].kind = "full"
    /\ results[Normalize(stocks[2])].total_trades > 0
    /\ summary.total_invested = results[Normalize(stocks[2])].total_invested

(***************************************************************************)
(* C15: for every bar series and every index below lookback_period,        *)
(* detect_all_anomalies returns is_anomaly false and no tags, whatever the *)
(* gap and the RSI at that index are.                                      *)
(***************************************************************************)
C15_NoSignalBeforeLookback ==
    (pc = "detected" /\ det_in.idx < lookback_period) =>
        /\ det_out.all.is_anomaly = FALSE
        /\ det_out.all.anomaly_types = {}

(***************************************************************************)
(* C16: when no close of the 14-bar RSI window is below the close before   *)
(* it (the average loss is zero), neither detector tags rsi_oversold or    *)
(* rsi_overbought, and the severity is the sum over the other tags alone.  *)
(***************************************************************************)
RsiTags == {"rsi_oversold", "rsi_overbought"}

C16_ZeroAverageLossDoesNotFire ==
    (pc = "detected" /\ det_in.idx >= RsiPeriod /\ Falls(det_in) = 0) =>
        /\ det_out.all.anomaly_types \cap RsiTags = {}
        /\ det_out.live.anomaly_types \cap RsiTags = {}
        /\ det_out.all.severity =
              SumOver(DetectorReading(det_in),
                      DOMAIN DetectorReading(det_in) \ RsiTags)

(***************************************************************************)
(* C17: in AnomalyDetector a degenerate statistic keeps its check from     *)
(* firing: a zero standard deviation of the lookback closes gives neither  *)
(* oversold nor overbought, a zero mean volume gives no volume_spike, a    *)
(* zero previous close gives none of extreme_drop, extreme_rise, gap_down, *)
(* gap_up; and a constant-price series fires none of the z-score, change   *)
(* and volatility checks.                                                  *)
(***************************************************************************)
C17_DegenerateStatisticsDoNotFire ==
    pc = "detected" =>
        /\ (det_in.idx >= lookback_period /\ ZSpread(det_in) = 0) =>
              det_out.all.anomaly_types \cap {"oversold", "overbought"} = {}
        /\ (det_in.idx >= lookback_period /\ SumSeq(HistVolumes(det_in)) = 0) =>
              "volume_spike" \notin det_out.all.anomaly_types
        /\ (det_in.idx >= 1 /\ PrevClose(det_in) = 0) =>
              det_out.all.anomaly_types
                  \cap {"extreme_drop", "extreme_rise", "gap_down", "gap_up"} = {}
        /\ (det_in.shape = "flat" /\ det_in.move = 0 /\ ~det_in.prev_zero) =>
              det_out.all.anomaly_types
                  \cap {"oversold", "overbought", "extreme_drop", "extreme_rise",
                        "volatility_spike"} = {}

(***************************************************************************)
(* C18: the direction either detector returns is BUY iff a BUY tag and no  *)
(* SELL tag fired, SELL iff a SELL tag and no BUY tag fired, MIXED iff one *)
(* of each fired, none otherwise; is_anomaly is true iff a tag fired.      *)
(***************************************************************************)
DirectionResolved(out) ==
    LET anyBuy == \E t \in out.anomaly_types :
                     t \in {"oversold", "extreme_drop", "gap_down", "rsi_oversold"}
        anySell == \E t \in out.anomaly_types :
                     t \in {"overbought", "extreme_rise", "gap_up", "rsi_overbought"}
    IN  /\ out.signal_type \in {"BUY", "SELL", "MIXED", "None"}
        /\ out.signal_type = "BUY" <=> (anyBuy /\ ~anySell)
        /\ out.signal_type = "SELL" <=> (anySell /\ ~anyBuy)
        /\ out.signal_type = "MIXED" <=> (anyBuy /\ anySell)
        /\ out.signal_type = "None" <=> (~anyBuy /\ ~anySell)
        /\ out.is_anomaly <=> out.anomaly_types # {}

C18_DirectionFollowsTags ==
    pc = "detected" =>
        /\ DirectionResolved(det_out.all)
        /\ DirectionResolved(det_out.live)

\* Both detectors saw a drop of the close together with an up-gap of the open
\* and returned MIXED.
C18_Witness ==
    /\ pc = "detected"
    /\ det_out.all.signal_type = "MIXED"
    /\ det_out.live.signal_type = "MIXED"
    /\ "extreme_drop" \in det_out.live.anomaly_types
    /\ "gap_up" \in det_out.live.anomaly_types

(***************************************************************************)
(* C19: the step after the last bar of backtest_strategy closes nothing:   *)
(* it appends no trade record, removes no lot and changes no lot's shares, *)
(* the shares_owned it reports is the sum of the shares of the open lots,  *)
(* and the open lots add nothing to the realized proceeds nor to the       *)
(* win/loss record.                                                        *)
(***************************************************************************)
C19_EndOfSeriesOnlyValues ==
    [][ (pc = "final" /\ pc' = "done") =>
          /\ trades' = trades
          /\ positions' = positions
          /\ result'.kind = "full" =>
                result'.shares_owned = Round(SumShares(positions, 1), ShareQuantum)
          /\ total_sold_value' = total_sold_value
          /\ result'.kind = "full" =>
                result'.total_sold_value = Round(total_sold_value, MoneyQuantum)
          /\ stock_performance' = stock_performance ]_vars

(***************************************************************************)
(* C20: the summary of run_backtest has total_invested the sum of the      *)
(* total_invested of the results, total_value the sum of their total_value,*)
(* total_profit_loss the difference of the two, and overall_return_pct     *)
(* 100 * total_profit_loss / total_invested rounded to two places when     *)
(* total_invested > 0, 0 otherwise; a result of a skipped or untraded      *)
(* symbol adds 0 to both sums.  The results are those of the entries of    *)
(* the stock list, which are the per-symbol results when no symbol is      *)
(* listed twice.                                                           *)
(***************************************************************************)
IsZeroResult(r) == r.kind \in {"short", "zero"}

ValueOfResult(r) == IF IsZeroResult(r) THEN 0 ELSE r.total_value

RECURSIVE SumInvested(_)
SumInvested(rs) ==
    IF rs = << >> THEN 0 ELSE Head(rs).total_invested + SumInvested(Tail(rs))

RECURSIVE SumValue(_)
SumValue(rs) ==
    IF rs = << >> THEN 0 ELSE ValueOfResult(Head(rs)) + SumValue(Tail(rs))

ListedOnce == \A j, k \in 1..Len(stocks) :
                 Normalize(stocks[j]) = Normalize(stocks[k]) => j = k

PerSymbolResults == [j \in 1..Len(stocks) |-> results[Normalize(stocks[j])]]

C21_OptimizerFiltersAndOrders ==
    pc = "optimized" =>
        /\ \A k \in 1..Len(opt_out) :
              /\ opt_out[k].total_invested > 0
              /\ opt_out[k].total_trades >= 10 \/ opt_out[k].return_pct > 500
        /\ \A k \in 1..(Len(opt_out) - 1) :
              LET a == opt_out[k]
                  b == opt_out[k + 1]
              IN  \/ a.return_pct > b.return_pct
                  \/ a.return_pct = b.return_pct
                       /\ a.composite_score > b.composite_score
                  \/ a.return_pct = b.return_pct
                       /\ a.composite_score = b.composite_score
                       /\ a.consistency <= b.consistency

\* Three strategies of the same return came back: the first ahead by its
\* composite score, the second ahead of the third by its consistency alone;
\* the entry put first was tested last.
C21_Witness ==
    /\ pc = "optimized"
    /\ Len(opt_out) = 3
    /\ opt_out[1].return_pct = opt_out[3].return_pct
    /\ opt_out[2].return_pct = opt_out[3].return_pct
    /\ opt_out[1].composite_score > opt_out[2].composite_score
    /\ opt_out[2].composite_score = opt_out[3].composite_score
    /\ opt_out[2].consistency < opt_out[3].consistency
    /\ opt_out[1].strategy = Strategies[3]
    /\ \E k \in 1..2 : opt_out[k].total_trades < 10

\* A turn of a scheduler loop placed an order.
OrderPlaced == pc \in {"scheduler", "crashed"} /\ sched.order.side # "none"

\* The tracker as the turn just taken found it before it called the Trader:
\* the position of the turn's symbol marked at the close the turn fetched.
TrackerAtOrder ==
    IF sched'.symbol \in DOMAIN live_positions /\ sched'.close.ok
    THEN [live_positions EXCEPT
            ![sched'.symbol] = LiveMark(@, sched'.close.price)]
    ELSE live_positions

\* C22: in the live scheduler, when buy_stock or sell_stock fails (returns
\* False) the position tracker and the performance record are exactly as
\* they were before the order attempt: no position was added after a failed
\* buy, and after a failed sell the position is still tracked with the same
\* shares and entry price and no win or loss was recorded.
C22_FailedOrderLeavesLedger ==
    [][ (OrderPlaced' /\ ticks' # ticks /\ ~sched'.order.result.value) =>
           /\ live_positions' = TrackerAtOrder
           /\ stock_performance' = stock_performance
           /\ sched'.order.side = "buy" =>
                 (sched'.symbol \in DOMAIN live_positions'
                    <=> sched'.symbol \in DOMAIN live_positions)
           /\ sched'.order.side = "sell" =>
                 /\ sched'.symbol \in DOMAIN live_positions'
                 /\ live_positions'[sched'.symbol].shares
                      = live_positions[sched'.symbol].shares
                 /\ live_positions'[sched'.symbol].entry_price
                      = live_positions[sched'.symbol].entry_price ]_vars

\* A sell of a tracked position failed at the broker after an earlier turn
\* had recorded nothing yet for the symbol.
C22_Witness ==
    /\ OrderPlaced
    /\ sched.order.side = "sell"
    /\ ~sched.order.result.value
    /\ sched.symbol \in DOMAIN live_positions
    /\ ~stock_performance[sched.symbol].present

\* C23: whenever buy_stock reports success, with a real client or with
\* simulated orders, the tracker afterwards holds a position for the symbol
\* whose shares and entry price are the filled shares and the average entry
\* price reported by the position query.
C23_BoughtPositionIsTracked ==
    (OrderPlaced /\ sched.order.side = "buy" /\ sched.order.result.value) =>
        /\ sched.position.found
        /\ sched.symbol \in DOMAIN live_positions
        /\ live_positions[sched.symbol].shares = sched.position.shares
        /\ live_positions[sched.symbol].entry_price
             = sched.position.avg_entry_price

\* The call of the Trader in the turn just taken was bound to fail: a quote
\* that is missing or whose request raises, a quantity below one share (or
\* a quoted price of zero), no position or less than one share at the
\* broker, or an exception of the broker.
BoundToFail ==
    LET o == sched'.order
        size == LiveGetPositionSize(stock_performance[sched'.symbol],
                                    SchedulerDollars)
    IN  \/ o.env.quote # "ok"
        \/ o.env.submit = "raises"
        \/ o.side = "buy" /\ (o.env.ask = 0 \/ size < o.env.ask)
        \/ o.side = "sell" /\ o.env.listing = "raises"
        \/ o.side = "sell" /\ sched'.symbol \notin DOMAIN broker.positions
        \/ o.side = "sell" /\ sched'.symbol \in DOMAIN broker.positions
             /\ broker.positions[sched'.symbol].qty < 1

\* C24: Trader.buy_stock and Trader.sell_stock never raise.  Every failure
\* (no quote, a quantity below one share, no position at the broker, an
\* exception of the broker) comes back as False without an order submitted,
\* and without an API client both return True for any symbol and amount.
C24_TraderNeverRaises ==
    [][ (OrderPlaced' /\ ticks' # ticks) =>
           /\ ~sched'.order.result.raised
           /\ pc' = "scheduler"
           /\ ~sched'.order.result.value =>
                 /\ ~sched'.order.result.submitted
                 /\ broker' = broker
           /\ (broker.client /\ BoundToFail) => ~sched'.order.result.value
           /\ ~broker.client => sched'.order.result.value ]_vars

\* submit_order raised for a sell of a position the broker holds, and the
\* sell came back as False.
C24_Witness ==
    /\ OrderPlaced
    /\ broker.client
    /\ sched.order.side = "sell"
    /\ sched.order.env.submit = "raises"
    /\ sched.order.env.quote = "ok"
    /\ sched.symbol \in DOMAIN broker.positions
    /\ ~sched.order.result.value

\* C26: check_signals never returns BUY for a symbol that already has a
\* tracked position, whatever the signal type (BUY or MIXED) and severity;
\* hence add_position is never called for a tracked symbol and the entry
\* price, the stop-loss price and the high-water mark of a tracked position
\* are never reset by a new buy.
C26_NoBuyWhileTracked ==
    [][ (pc = "scheduler" /\ sched'.op = "execute" /\ ticks' # ticks
         /\ sched'.symbol \in DOMAIN live_positions) =>
           /\ sched'.signal.action # "BUY"
           /\ sched'.order.side # "buy"
           /\ sched'.symbol \in DOMAIN live_positions' =>
                 LET old == live_positions[sched'.symbol]
                     new == live_positions'[sched'.symbol]
                 IN  /\ new.entry_price = old.entry_price
                     /\ new.stop_loss_price = old.stop_loss_price
                     /\ new.highest_price >= old.highest_price ]_vars

\* C27: in check_signals, when the symbol has a tracked position, a current
\* price is available and that price is at or below the position's
\* stop-loss price or trailing-stop price, the result is SELL with reason
\* STOP_LOSS or TRAILING_STOP whatever anomaly detection reports: the
\* detector is consulted only when no stop fires.
C27_StopsComeBeforeAnomalies ==
    [][ (pc = "scheduler" /\ sched'.op = "execute" /\ ticks' # ticks
         /\ sched'.symbol \in DOMAIN live_positions /\ sched'.close.ok) =>
           LET pos == live_positions[sched'.symbol]
               price == sched'.close.price
               high == IF price > pos.highest_price THEN price
                       ELSE pos.highest_price
               fires == \/ price * 100 <= pos.stop_loss_price
                        \/ price * 100 <= high * (100 - TrailingStopPct)
           IN  /\ fires => /\ sched'.signal.action = "SELL"
                           /\ sched'.signal.reason \in {"STOP_LOSS", "TRAILING_STOP"}
                           /\ sched'.signal.current_price = price
               /\ sched'.consulted <=> ~fires ]_vars

\* check_signals returned a trailing-stop SELL for a position whose price
\* had risen above its entry, at a price above its stop-loss price.
C27_Witness ==
    /\ pc = "scheduler"
    /\ sched.op = "execute"
    /\ sched.signal.action = "SELL"
    /\ sched.signal.reason = "TRAILING_STOP"
    /\ ~sched.consulted
    /\ sched.order.result.value
    /\ sched.symbol \notin DOMAIN live_positions
    /\ stock_performance[sched.symbol].present

\* The bar just processed ended with an OVERBOUGHT partial close.
PartiallyClosed ==
    /\ pc \in {"exits", "final"}
    /\ Len(trades) > bar_first
    /\ OverboughtRecord(trades[Len(trades)])

\* C25: after an OVERBOUGHT partial close the reduced lot stays in the open
\* set exactly when at least 0.0001 share remains of it; a lot whose
\* remainder falls below that is removed from the open set; so every lot in
\* the open set at the end of any bar has shares > 0.
C25_DustLotsAreRemoved ==
    /\ PartiallyClosed =>
         LET k == MinShares(bar_bought)
             lot == bar_bought[k]
             left == lot.shares - (lot.shares * 25) \div 100
             stays == \E m \in 1..Len(positions) : SameLot(positions[m], lot)
         IN  /\ stays <=> left >= DustShares
             /\ stays => /\ Len(positions) = Len(bar_bought)
                         /\ positions[k].shares = left
             /\ ~stays => Len(positions) = Len(bar_bought) - 1
    /\ pc \in {"exits", "final"} =>
         \A m \in 1..Len(positions) : positions[m].shares > 0

\* A partial close left less than 0.0001 share of a lot that held more than
\* that, and the lot is gone from the open set.
C25_Witness ==
    /\ PartiallyClosed
    /\ Len(positions) = Len(bar_bought) - 1
    /\ bar_bought[MinShares(bar_bought)].shares
         - PartialShares(bar_bought[MinShares(bar_bought)].shares) < DustShares
    /\ bar_bought[MinShares(bar_bought)].shares >= DustShares

\* C28: in the backtest the lot opened by the BUY of bar i is eligible for
\* the OVERBOUGHT partial sell of the same bar: a MIXED bar of severity >=
\* 3.0 logs an OVERBOUGHT SELL after its BUY even when no lot was open
\* before the bar, and when the new lot is the smallest one, 25% of it is
\* sold at its own entry price, with profit 0, which counts as a loss.
C28_NewLotIsSoldTheSameBar ==
    [][ (/\ pc = "signal"
         /\ bar_signal'.signal_type = "MIXED"
         /\ bar_signal'.severity >= StrongSeverity) =>
           LET new == bar_bought'[Len(bar_bought')]
               smallest == \A j \in 1..Len(positions) :
                               positions[j].shares > new.shares
               before == stock_performance[PerfKey(symbol)]
               after == stock_performance'[PerfKey(symbol)]
           IN  /\ Len(bar_bought') = Len(positions) + 1
               /\ new.entry_date = i
               /\ new.entry_price = current_price
               /\ Len(Appended) = 2
               /\ BuyRec(Appended[1])
               /\ OverboughtRecord(Appended[2])
               /\ Appended[1].date = i /\ Appended[2].date = i
               /\ overbought_sells' = overbought_sells + 1
               /\ smallest =>
                    /\ Appended[2].shares
                         = Round((new.shares * 25) \div 100, ShareQuantum)
                    /\ Appended[2].price = new.entry_price
                    /\ Appended[2].entry_price = new.entry_price
                    /\ Appended[2].profit = 0
                    /\ after.losses = before.losses + 1
                    /\ after.wins = before.wins
                    /\ after.total_profit = before.total_profit ]_vars

\* The first lot of a run was opened and partially sold by one MIXED bar.
C28_Witness ==
    /\ pc \in {"exits", "final"}
    /\ bar_signal.signal_type = "MIXED"
    /\ bar_signal.severity >= StrongSeverity
    /\ Len(trades) = 2
    /\ BuyRec(trades[1])
    /\ OverboughtRecord(trades[2])
    /\ trades[2].profit = 0
    /\ trades[2].date = trades[1].date
    /\ stock_performance[PerfKey(symbol)].losses = 1
    /\ Len(positions) = 1
    /\ positions[1].shares < bar_bought[1].shares

Higher(a, b) == IF a >= b THEN a ELSE b

\* The levels of a lot or of a tracked position follow from its entry price
\* and its high-water mark.
LevelsFollow(pos) ==
    /\ pos.highest_price >= pos.entry_price
    /\ pos.stop_loss_price = pos.entry_price * (100 - StopLossPct)
    /\ pos.trailing_stop_price = pos.highest_price * (100 - TrailingStopPct)
    /\ pos.trailing_stop_price >= pos.stop_loss_price

\* A stop closes the position at this price with reason TRAILING_STOP.
ClosedByTrailingStop(pos, price) ==
    /\ price * 100 > pos.stop_loss_price
    /\ price * 100 <= Higher(pos.highest_price, price) * (100 - TrailingStopPct)

\* The lots of the backtest in one step: a lot that was open keeps its mark,
\* raised to the bar's close when the step is the exit phase, which marks
\* every open lot; a lot that was not open starts at its entry price.  The
\* exit phase reports as many TRAILING_STOP exits as lots whose raised mark
\* is above their entry and whose close is above their stop-loss price.
LotsKeepTheirMark ==
    /\ \A m \in 1..Len(positions') :
         LET new == positions'[m]
             olds == {k \in 1..Len(positions) : SameLot(positions[k], new)}
         IN  /\ LevelsFollow(new)
             /\ IF olds = {}
                THEN new.highest_price = new.entry_price
                ELSE LET old == positions[CHOOSE k \in olds : TRUE]
                     IN  new.highest_price =
                            IF pc = "exits"
                            THEN Higher(old.highest_price, current_price')
                            ELSE old.highest_price
    /\ pc = "exits" =>
         LET hit == {k \in 1..Len(positions) :
                        ClosedByTrailingStop(positions[k], current_price')}
         IN  /\ \A k \in hit :
                   /\ Higher(positions[k].highest_price, current_price')
                        > positions[k].entry_price
                   /\ \A m \in 1..Len(positions') :
                        ~SameLot(positions'[m], positions[k])
             /\ trailing_stop_triggers' = trailing_stop_triggers + Cardinality(hit)
             /\ Cardinality({k \in 1..Len(Appended) :
                                Appended[k].reason = "TRAILING_STOP"})
                  = Cardinality(hit)

\* The price at which the step marked the tracked position of s, or 0.
MarkedAt(s) ==
    IF pc = "live"
    THEN (IF live_ret'.op = "update_position" /\ live_ret'.symbol = s
          THEN live_ret'.price ELSE 0)
    ELSE (IF sched'.symbol = s /\ sched'.close.ok THEN sched'.close.price ELSE 0)

\* The step called add_position for s.
Entered(s) ==
    IF pc = "live"
    THEN live_ret'.op = "add_position" /\ live_ret'.symbol = s
    ELSE /\ sched'.symbol = s
         /\ sched'.order.side = "buy"
         /\ sched'.order.result.value
         /\ sched'.position.found

\* The same for the positions of the live tracker.
TrackedKeepTheirMark ==
    /\ \A s \in DOMAIN live_positions' :
         LET new == live_positions'[s]
         IN  /\ LevelsFollow(new)
             /\ IF s \notin DOMAIN live_positions \/ Entered(s)
                THEN new.highest_price = new.entry_price
                ELSE new.highest_price
                       = Higher(live_positions[s].highest_price, MarkedAt(s))
    /\ \A s \in DOMAIN live_positions :
         LET old == live_positions[s]
             reported ==
                 IF pc = "live"
                 THEN /\ live_ret'.op = "update_position"
                      /\ live_ret'.symbol = s
                      /\ live_ret'.reason = "TRAILING_STOP"
                 ELSE sched'.symbol = s /\ sched'.signal.reason = "TRAILING_STOP"
         IN  reported <=> (MarkedAt(s) > 0 /\ ClosedByTrailingStop(old, MarkedAt(s)))
    /\ \A s \in DOMAIN live_positions :
         (MarkedAt(s) > 0 /\ ClosedByTrailingStop(live_positions[s], MarkedAt(s)))
            => Higher(live_positions[s].highest_price, MarkedAt(s))
                  > live_positions[s].entry_price

\* C29: for every open lot, in the backtest and in the live tracker, the
\* high-water mark is the maximum of the entry price and of all prices
\* marked since entry, and the trailing-stop price is the high-water mark
\* times (1 - trailing percentage); hence, the two percentages being equal,
\* the trailing-stop price is never below the stop-loss price, and a
\* TRAILING_STOP exit is reported only for a lot whose high-water mark rose
\* above its entry price and only at a price strictly above its stop-loss
\* price.  Stated step by step: the mark starts at the entry price and each
\* marking raises it to the larger of itself and the price marked.
C29_HighWaterMarkIsTheMaximum ==
    [][LotsKeepTheirMark /\ TrackedKeepTheirMark]_vars

\* A lot of the backtest was closed by its trailing stop, above its
\* stop-loss price, after its mark had risen above the entry price.
C29_Witness ==
    /\ pc = "signal"
    /\ trailing_stop_triggers = 1
    /\ \E k \in 1..Len(bar_lots) :
         /\ ~HitsStopLoss(k)
         /\ HitsTrailing(k)
         /\ Marked(k).highest_price > bar_lots[k].entry_price
         /\ current_price < Marked(k).highest_price
         /\ current_price * 100 > bar_lots[k].stop_loss_price

\* The shares of the SELL records of the first n trades do not exceed those
\* of the BUY records among them.
NeverOversold ==
    \A n \in 1..Len(trades) :
        SumRecords(SubSeq(trades, 1, n), 1, "SELL")
            <= SumRecords(SubSeq(trades, 1, n), 1, "BUY")

\* C30: in both backtest engines the holding of a symbol is never negative:
\* a SELL record is logged only while shares are held, no SELL sells more
\* shares than are held at that moment (in the improved engine, more than
\* the selected lot holds), and at every prefix of the trade log the
\* cumulative SELL shares do not exceed the cumulative BUY shares.
C30_HoldingNeverNegative ==
    /\ shares_owned >= 0
    /\ \A k \in 1..Len(positions) : positions[k].shares >= 0
    /\ pc \in {"basic_bar", "basic_final", "basic_done",
               "exits", "signal", "final", "done"} => NeverOversold

====
